---- MODULE Spec2Model ----
(***************************************************************************)
(* A model of the go-mpq archive library: the hash/cipher primitives, the  *)
(* write path (writeArchive), the read path (Open, findFile, ExtractFile), *)
(* modify mode (OpenForModify, RemoveFile, buildModifiedFileList), Close   *)
(* with its temp-file protocol, and the patch chain.                       *)
(*                                                                         *)
(* Representation choices                                                  *)
(*   - a uint32 is a pair <<hi, lo>> of 16-bit halves (TLC integers are    *)
(*     32-bit signed), all arithmetic is modulo 2^32;                      *)
(*   - a string or byte slice is a sequence of byte values;                *)
(*   - the DEFLATE backend is a run-length codec behind the same mask byte *)
(*     (lossless, sometimes shorter than its input, sometimes not).        *)
(***************************************************************************)
EXTENDS Integers, Sequences, FiniteSets, TLC

VARIABLES
    disk,     \* the files at the archive path and at the handle's temp path
    arc,      \* the one Archive handle in use
    pc,       \* where Close stands between its file-system steps
    result,   \* what the last call returned
    dest,     \* the destination file of ExtractFile
    written,  \* history: the handles that wrote the archive on disk, with their calls
    log,      \* history: the calls that returned nil on the handle in use
    before,   \* history: the file at the archive path when Close began
    chain,    \* the PatchChain in use
    given,    \* history: what the archives given to OpenPatchChain were made of
    sizing    \* the archive made by Create in the sizing specification

vars == << disk, arc, pc, result, dest, written, log, before, chain, given, sizing >>

(***************************************************************************)
(* Bounds of the model                                                     *)
(***************************************************************************)
\* sector size shift used by Create (the library uses 12; scaled down)
SectorShift == 2
\* most entries a handle's pending queue takes
MaxPending == 2
\* calls (adds and removals) on one OpenForModify handle
MaxModify == 1
\* archives written in one run
MaxRewrites == 2
\* largest maxFiles given to Create in the sizing specification
MaxMaxFiles == 60
\* archives in a patch chain
MaxChain == 2
\* bytes by which the longest stored payload exceeds two sectors
MaxBeyond == 5
\* most names added to the archive of the table specification
MaxNames == 14
\* slots of the hash tables of the lookup specification
LookupSlots == 3
\* words in a block of the cipher specification
MaxWords == 3
\* largest maxFiles given to Create in the capacity specification
MaxDeclared == 12
\* adds under one path on a handle of the repeat specification
MaxRepeat == 2

(***************************************************************************)
(* 32-bit words                                                            *)
(***************************************************************************)
U32(n) == << n \div 65536, n % 65536 >>

\* bit k of x
Bit(x, k) == (x \div (2 ^ k)) % 2

\* the bitwise operators on 4-bit digits, tabulated: entry 16 * x + y + 1
XorNib ==
    SubSeq([i \in 1..256 |->
        LET x == (i - 1) \div 16
            y == (i - 1) % 16
        IN   ((Bit(x, 0) + Bit(y, 0)) % 2) + 2 * ((Bit(x, 1) + Bit(y, 1)) % 2)
           + 4 * ((Bit(x, 2) + Bit(y, 2)) % 2) + 8 * ((Bit(x, 3) + Bit(y, 3)) % 2)], 1, 256)

AndNib ==
    SubSeq([i \in 1..256 |->
        LET x == (i - 1) \div 16
            y == (i - 1) % 16
        IN   (Bit(x, 0) * Bit(y, 0)) + 2 * (Bit(x, 1) * Bit(y, 1))
           + 4 * (Bit(x, 2) * Bit(y, 2)) + 8 * (Bit(x, 3) * Bit(y, 3))], 1, 256)

XorDigit(x, y) == XorNib[16 * x + y + 1]

AndDigit(x, y) == AndNib[16 * x + y + 1]

\* a bitwise operator on 16-bit values, digit by digit
Nib16(T(_, _), a, b) ==
      T(a % 16, b % 16)
    + 16 * T((a \div 16) % 16, (b \div 16) % 16)
    + 256 * T((a \div 256) % 16, (b \div 256) % 16)
    + 4096 * T(a \div 4096, b \div 4096)

Xor16(a, b) == Nib16(XorDigit, a, b)

And16(a, b) == Nib16(AndDigit, a, b)

\* a | b = (a ^ b) + (a & b)
Or16(a, b) == Xor16(a, b) + And16(a, b)

Xor32(a, b) == << Xor16(a[1], b[1]), Xor16(a[2], b[2]) >>

Or32(a, b) == << Or16(a[1], b[1]), Or16(a[2], b[2]) >>

And32(a, b) == << And16(a[1], b[1]), And16(a[2], b[2]) >>

Not32(a) == << 65535 - a[1], 65535 - a[2] >>

Add32(a, b) ==
    LET lo == a[2] + b[2]
    IN << (a[1] + b[1] + (lo \div 65536)) % 65536, lo % 65536 >>

Sub32(a, b) == Add32(a, Add32(Not32(b), U32(1)))

\* left shift by n < 16
ShlSmall(a, n) ==
    LET m == 2 ^ n
        lo == a[2] * m
    IN << (a[1] * m + (lo \div 65536)) % 65536, lo % 65536 >>

Shl32(a, n) == IF n >= 16 THEN ShlSmall(<< a[2], 0 >>, n - 16) ELSE ShlSmall(a, n)

\* right shift by n < 32
Shr32(a, n) ==
    IF n >= 16 THEN << 0, a[1] \div (2 ^ (n - 16)) >>
    ELSE LET m == 2 ^ n
         IN << a[1] \div m, (a[2] \div m) + (a[1] % m) * (65536 \div m) >>

\* a word as a natural number; words of 2^31 and more saturate
MaxNat == 2147483647

Nat32(a) == IF a[1] >= 32768 THEN MaxNat ELSE a[1] * 65536 + a[2]

(***************************************************************************)
(* Loops over an index range, split in halves to keep the evaluation       *)
(* shallow: FoldRange is "for k := lo; k <= hi; k++ { st = F(st, k) }",    *)
(* ConcatMap is the concatenation of F(lo), ..., F(hi)                     *)
(***************************************************************************)
RECURSIVE FoldRange(_, _, _, _)
FoldRange(F(_, _), lo, hi, st) ==
    IF lo > hi THEN st
    ELSE IF lo = hi THEN F(st, lo)
    ELSE LET mid == (lo + hi) \div 2
             left == FoldRange(F, lo, mid, st)
         IN \* the first half is computed before the second half starts
            IF left = left THEN FoldRange(F, mid + 1, hi, left) ELSE left

RECURSIVE ConcatMap(_, _, _)
ConcatMap(F(_), lo, hi) ==
    IF lo > hi THEN << >>
    ELSE IF lo = hi THEN F(lo)
    ELSE LET mid == (lo + hi) \div 2
         IN ConcatMap(F, lo, mid) \o ConcatMap(F, mid + 1, hi)

(***************************************************************************)
(* crypt.go: cryptTable, hashString, encryptBlock, decryptBlock            *)
(***************************************************************************)
RECURSIVE BuildSeeds(_, _)
BuildSeeds(s0, n) ==
    IF n = 1 THEN << (s0 * 125 + 3) % 2796203 >>
    ELSE LET h == n \div 2
             left == BuildSeeds(s0, h)
         IN left \o BuildSeeds(left[h], n - h)

Seeds == BuildSeeds(1048577, 2560)

\* cryptTable[j + 1] is the Go cryptTable[j]
cryptTable ==
    SubSeq([j \in 1..1280 |->
        LET k == 2 * (5 * ((j - 1) % 256) + ((j - 1) \div 256))
        IN << Seeds[k + 1] % 65536, Seeds[k + 2] % 65536 >>], 1, 1280)

hashTypeTableOffset == 0
hashTypeNameA == 1
hashTypeNameB == 2
hashTypeFileKey == 3

\* the character taken as it stands: what C11 must tell from hashChar
hashCharAsIs(c) == c

\* the character as hashed: upper-cased, '/' as '\'
hashChar(c) == IF c >= 97 /\ c <= 122 THEN c - 32 ELSE IF c = 47 THEN 92 ELSE c

hashMix(st, ch, seed1) ==
    [st EXCEPT !.seed1 = seed1,
               !.seed2 = Add32(Add32(Add32(Add32(U32(ch), seed1), st.seed2),
                                     Shl32(st.seed2, 5)), U32(3))]

\* one iteration of the hashString loop; st is [s, hashType, seed1, seed2]
hashStep(st, i) ==
    hashMix(st, hashChar(st.s[i]),
            Xor32(cryptTable[st.hashType * 256 + hashChar(st.s[i]) + 1],
                  Add32(st.seed1, st.seed2)))

hashString(s, hashType) ==
    FoldRange(hashStep, 1, Len(s),
              [s |-> s, hashType |-> hashType,
               seed1 |-> << 32749, 32749 >>, seed2 |-> << 61166, 61166 >>]).seed1

nextKey(key) == Or32(Add32(Shl32(Not32(key), 21), << 4369, 4369 >>), Shr32(key, 11))

\* one iteration of the encryptBlock loop; st is [data, key, seed]
encryptStep(st, i) ==
    LET seed == Add32(st.seed, cryptTable[1024 + (st.key[2] % 256) + 1])
        plain == st.data[i]
        encrypted == Xor32(plain, Add32(st.key, seed))
    IN [data |-> [st.data EXCEPT ![i] = encrypted],
        key |-> nextKey(st.key),
        seed |-> Add32(Add32(Add32(plain, seed), Shl32(seed, 5)), U32(3))]

encryptBlock(data, key) ==
    FoldRange(encryptStep, 1, Len(data),
              [data |-> data, key |-> key, seed |-> << 61166, 61166 >>]).data

\* every word combined with the key alone, with no running seed
xorBlock(data, key) == [i \in 1..Len(data) |-> Xor32(data[i], key)]

\* one iteration of the decryptBlock loop
decryptStep(st, i) ==
    LET seed == Add32(st.seed, cryptTable[1024 + (st.key[2] % 256) + 1])
        encrypted == st.data[i]
        plain == Xor32(encrypted, Add32(st.key, seed))
    IN [data |-> [st.data EXCEPT ![i] = plain],
        key |-> nextKey(st.key),
        seed |-> Add32(Add32(Add32(plain, seed), Shl32(seed, 5)), U32(3))]

decryptBlock(data, key) ==
    FoldRange(decryptStep, 1, Len(data),
              [data |-> data, key |-> key, seed |-> << 61166, 61166 >>]).data

(***************************************************************************)
(* Byte helpers                                                            *)
(***************************************************************************)
Take(s, n) == SubSeq(s, 1, IF n < Len(s) THEN n ELSE Len(s))

Drop(s, n) == SubSeq(s, n + 1, Len(s))

Rep(v, n) == [i \in 1..n |-> v]

\* little-endian bytes of a word
LE32(w) == << w[2] % 256, w[2] \div 256, w[1] % 256, w[1] \div 256 >>

\* the word at byte offset off (0-based) of data
Word32At(data, off) ==
    << data[off + 3] + 256 * data[off + 4], data[off + 1] + 256 * data[off + 2] >>

(***************************************************************************)
(* checksum.go: adler32 ; the crc32 used by (attributes)                   *)
(***************************************************************************)
adler32(data) ==
    LET step(st, i) == LET a == (st[2] + data[i]) % 65521
                       IN << (st[1] + a) % 65521, a >>
    IN FoldRange(step, 1, Len(data), << 0, 1 >>)

RECURSIVE crcRound(_, _)
crcRound(crc, j) ==
    IF j = 0 THEN crc
    ELSE crcRound(IF crc[2] % 2 = 1 THEN Xor32(Shr32(crc, 1), << 60856, 33568 >>)
                  ELSE Shr32(crc, 1), j - 1)

\* crc32Table[i + 1] is the Go crc32Table[i]
crc32Table == SubSeq([i \in 1..256 |-> crcRound(U32(i - 1), 8)], 1, 256)

crc32(data) ==
    LET step(crc, i) == Xor32(crc32Table[Xor16(crc[2] % 256, data[i]) + 1], Shr32(crc, 8))
    IN Not32(FoldRange(step, 1, Len(data), << 65535, 65535 >>))

(***************************************************************************)
(* format.go: constants                                                    *)
(***************************************************************************)
formatVersion1 == 0
formatVersion2 == 1
FormatV1 == 0
FormatV2 == 1
headerSizeV1 == 32
headerSizeV2 == 44

fileImplode == << 0, 256 >>
fileCompress == << 0, 512 >>
fileEncrypted == << 1, 0 >>
fileFixKey == << 2, 0 >>
filePatchFile == << 16, 0 >>
fileSingleUnit == << 256, 0 >>
fileDeleteMarker == << 512, 0 >>
fileSectorCRC == << 1024, 0 >>
fileExists == << 32768, 0 >>

hashTableEmpty == << 65535, 65535 >>
hashTableDeleted == << 65535, 65534 >>
localeNeutral == 0

\* flags & f != 0, for a mask f of one bit
HasFlag(flags, f) ==
    IF f[1] # 0 THEN (flags[1] \div f[1]) % 2 = 1 ELSE (flags[2] \div f[2]) % 2 = 1

\* w % n for a small positive n
Mod32(w, n) == ((w[1] % n) * (65536 % n) + w[2]) % n

(***************************************************************************)
(* Archive paths, as byte strings                                          *)
(***************************************************************************)
LISTFILE == << 40, 108, 105, 115, 116, 102, 105, 108, 101, 41 >>
ATTRIBUTES == << 40, 97, 116, 116, 114, 105, 98, 117, 116, 101, 115, 41 >>
HASHTABLEKEY == << 40, 104, 97, 115, 104, 32, 116, 97, 98, 108, 101, 41 >>
BLOCKTABLEKEY == << 40, 98, 108, 111, 99, 107, 32, 116, 97, 98, 108, 101, 41 >>
CRLF == << 13, 10 >>

\* strings.ReplaceAll(s, "/", "\\")
SlashToBackslash(s) == [i \in 1..Len(s) |-> IF s[i] = 47 THEN 92 ELSE s[i]]

\* ASCII upper-casing, as strings.ToUpper does on ASCII input
ToUpper(s) == [i \in 1..Len(s) |-> IF s[i] >= 97 /\ s[i] <= 122 THEN s[i] - 32 ELSE s[i]]

ToLower(s) == [i \in 1..Len(s) |-> IF s[i] >= 65 /\ s[i] <= 90 THEN s[i] + 32 ELSE s[i]]

\* strings.EqualFold on ASCII input
EqualFold(s, t) == ToUpper(s) = ToUpper(t)

(***************************************************************************)
(* compress.go: compressData, decompressData                               *)
(***************************************************************************)
compressionHuffman == 1
compressionZlib == 2
compressionPKWare == 8
compressionBzip2 == 16
compressionLZMA == 18
compressionSparse == 32
compressionADPCMMono == 64
compressionADPCM == 128

\* the deflate backend: runs of equal bytes become <<byte, run length>>
RECURSIVE RunLen(_, _)
RunLen(s, i) ==
    IF i < Len(s) /\ s[i + 1] = s[i] /\ i < 255 THEN RunLen(s, i + 1) ELSE i

RECURSIVE Deflate(_)
Deflate(s) ==
    IF s = << >> THEN << >>
    ELSE LET n == RunLen(s, 1)
         IN << s[1], n >> \o Deflate(Drop(s, n))

RECURSIVE InflateRuns(_)
InflateRuns(s) ==
    IF Len(s) < 2 THEN << >>
    ELSE Rep(s[1], s[2]) \o InflateRuns(Drop(s, 2))

\* a stream is well formed when it is a sequence of <<byte, run length >= 1>>
WellFormed(s) == Len(s) % 2 = 0 /\ \A k \in 1..(Len(s) \div 2) : s[2 * k] >= 1

compressData(data) == << compressionZlib >> \o Deflate(data)

\* result of a fallible call: err = "" on success
Ok(v) == [err |-> "", val |-> v]
Fail(e) == [err |-> e, val |-> << >>]

decompressZlib(data, uncompressedSize) ==
    IF ~WellFormed(data) THEN Fail("zlib decompress")
    ELSE Ok(Take(InflateRuns(data), uncompressedSize))

\* compressionType & m != 0, for a mask m of one bit
hasType(compressionType, m) == (compressionType \div m) % 2 = 1

\* compress.go: the audio stage of a multi-compression, after step1
audioStage(compressionType, step1) ==
    IF step1.err # "" THEN step1
    ELSE IF /\ hasType(compressionType, compressionHuffman)
            /\ ~hasType(compressionType, compressionADPCMMono)
            /\ ~hasType(compressionType, compressionADPCM)
         THEN Fail("Huffman compression without ADPCM not supported")
    ELSE IF hasType(compressionType, compressionADPCMMono)
         THEN Fail("ADPCM mono compression not supported")
    ELSE IF hasType(compressionType, compressionADPCM)
         THEN Fail("ADPCM stereo compression not supported")
    ELSE IF Len(step1.val) = 0 THEN Fail("unsupported compression type")
    ELSE step1

\* compress.go: a mask byte that names several algorithms
multiStage(compressionType, rest, uncompressedSize) ==
    audioStage(compressionType,
               IF hasType(compressionType, compressionBzip2) THEN Fail("multi bzip2")
               ELSE IF hasType(compressionType, compressionZlib)
                    THEN decompressZlib(rest, uncompressedSize)
               ELSE IF hasType(compressionType, compressionPKWare) THEN Fail("multi pkware")
               ELSE Ok(rest))

decompressData(data, uncompressedSize) ==
    IF Len(data) = 0 THEN Fail("empty compressed data")
    ELSE CASE data[1] = compressionZlib -> decompressZlib(Drop(data, 1), uncompressedSize)
           [] data[1] = compressionPKWare -> Fail("pkware backend")
           [] data[1] = compressionBzip2 -> Fail("bzip2 backend")
           [] data[1] = compressionLZMA -> Fail("LZMA compression not supported")
           [] data[1] = compressionHuffman -> Fail("Huffman-only compression not supported")
           [] data[1] = compressionADPCMMono -> Fail("ADPCM mono compression not supported")
           [] data[1] = compressionADPCM -> Fail("ADPCM stereo compression not supported")
           [] OTHER -> multiStage(data[1], Drop(data, 1), uncompressedSize)

(***************************************************************************)
(* Data structures (mpq.go:29-51, format.go:47-128)                        *)
(*   hash entry  [HashA, HashB, Locale, Platform, BlockIndex]  (words)      *)
(*   block entry [FilePos, CompressedSize, FileSize, Flags]; sizes and     *)
(*               offsets are naturals, FilePos is the 64-bit position      *)
(*   pending     [mpqPath, data, generateCRC, isPatchFile, isDeleteMarker] *)
(*   file image  [exists, complete, header, data, hashTableData,           *)
(*               blockTableData]: data is the bytes between the header and *)
(*               the tables, the tables are the encrypted word arrays as   *)
(*               stored                                                    *)
(***************************************************************************)
\* an absent file, a file just created or cut short, the absence of a handle
NoFile == [exists |-> FALSE, complete |-> FALSE]
Truncated == [exists |-> TRUE, complete |-> FALSE]
NoHandle == [mode |-> "none"]
NoChain == [open |-> FALSE]

emptyHashEntry ==
    [HashA |-> << 65535, 65535 >>, HashB |-> << 65535, 65535 >>,
     Locale |-> 65535, Platform |-> 65535, BlockIndex |-> hashTableEmpty]

hashTableCryptKey == hashString(HASHTABLEKEY, hashTypeFileKey)
blockTableCryptKey == hashString(BLOCKTABLEKEY, hashTypeFileKey)

\* a probe that takes the start slot whether it is free or not: what C17
\* must tell from probeFree
probeFirst(table, size, startIndex, i) == startIndex

\* crypt.go:587-608
RECURSIVE probeFree(_, _, _, _)
probeFree(table, size, startIndex, i) ==
    IF i >= size THEN -1
    ELSE LET idx == (startIndex + i) % size
         IN IF table[idx + 1].BlockIndex = hashTableEmpty
               \/ table[idx + 1].BlockIndex = hashTableDeleted
            THEN idx
            ELSE probeFree(table, size, startIndex, i + 1)

\* crypt.go:601-607 ; idx is the free slot found, -1 when there is none
insertAt(hashTable, mpqPath, blockIndex, idx) ==
    IF idx < 0 THEN [err |-> "hash table full", val |-> hashTable]
    ELSE [err |-> "",
          val |-> [hashTable EXCEPT ![idx + 1] =
                     [HashA |-> hashString(mpqPath, hashTypeNameA),
                      HashB |-> hashString(mpqPath, hashTypeNameB),
                      Locale |-> localeNeutral, Platform |-> 0,
                      BlockIndex |-> blockIndex]]]

addToHashTable(hashTable, size, mpqPath, blockIndex) ==
    insertAt(hashTable, mpqPath, blockIndex,
             probeFree(hashTable, size,
                       Mod32(hashString(mpqPath, hashTypeTableOffset), size), 0))

\* findLoop without the test of the EXISTS bit: what C18 must tell from it
RECURSIVE findLoopUnchecked(_, _, _, _, _)
findLoopUnchecked(a, hashA, hashB, startIndex, i) ==
    IF i >= a.header.HashTableSize THEN -1
    ELSE LET idx == (startIndex + i) % a.header.HashTableSize
             entry == a.hashTable[idx + 1]
         IN IF entry.BlockIndex = hashTableEmpty THEN -1
            ELSE IF entry.BlockIndex = hashTableDeleted
                 THEN findLoopUnchecked(a, hashA, hashB, startIndex, i + 1)
            ELSE IF /\ entry.HashA = hashA
                    /\ entry.HashB = hashB
                    /\ Nat32(entry.BlockIndex) < Len(a.blockTable)
                 THEN Nat32(entry.BlockIndex)
            ELSE findLoopUnchecked(a, hashA, hashB, startIndex, i + 1)

\* mpq.go:1057-1086 ; the result is the block index, -1 when not found
RECURSIVE findLoop(_, _, _, _, _)
findLoop(a, hashA, hashB, startIndex, i) ==
    IF i >= a.header.HashTableSize THEN -1
    ELSE LET idx == (startIndex + i) % a.header.HashTableSize
             entry == a.hashTable[idx + 1]
         IN IF entry.BlockIndex = hashTableEmpty THEN -1
            ELSE IF entry.BlockIndex = hashTableDeleted
                 THEN findLoop(a, hashA, hashB, startIndex, i + 1)
            ELSE IF /\ entry.HashA = hashA
                    /\ entry.HashB = hashB
                    /\ Nat32(entry.BlockIndex) < Len(a.blockTable)
                    /\ HasFlag(a.blockTable[Nat32(entry.BlockIndex) + 1].Flags, fileExists)
                 THEN Nat32(entry.BlockIndex)
            ELSE findLoop(a, hashA, hashB, startIndex, i + 1)

findFile(a, mpqPath0) ==
    LET mpqPath == SlashToBackslash(mpqPath0)
    IN findLoop(a, hashString(mpqPath, hashTypeNameA), hashString(mpqPath, hashTypeNameB),
                Mod32(hashString(mpqPath, hashTypeTableOffset), a.header.HashTableSize), 0)

(***************************************************************************)
(* crypt.go:501-585 writeSectoredFile                                      *)
(***************************************************************************)
NumSectors(size, sectorSize) == (size + sectorSize - 1) \div sectorSize

SectorOf(data, i, sectorSize) ==
    SubSeq(data, i * sectorSize + 1,
           IF (i + 1) * sectorSize > Len(data) THEN Len(data) ELSE (i + 1) * sectorSize)

\* a sector as stored: compressed if that is shorter
StoredSector(sectorData) ==
    LET shorter(compressed) ==
            IF Len(compressed) < Len(sectorData) THEN compressed ELSE sectorData
    IN shorter(compressData(sectorData))

RECURSIVE SectorOffsets(_, _, _, _)
SectorOffsets(data, sectorSize, i, currentOffset) ==
    IF i >= NumSectors(Len(data), sectorSize) THEN << currentOffset >>
    ELSE << currentOffset >> \o
         SectorOffsets(data, sectorSize, i + 1,
                       currentOffset + Len(StoredSector(SectorOf(data, i, sectorSize))))

writeSectoredFile(data, sectorSize, useCRC) ==
    LET numSectors == NumSectors(Len(data), sectorSize)
        offsetTableSize == (numSectors + 1) * 4
        crcTableSize == IF useCRC THEN numSectors * 4 ELSE 0
        offsetTable == SectorOffsets(data, sectorSize, 0, offsetTableSize + crcTableSize)
        offBytes(k) == LE32(U32(offsetTable[k]))
        crcBytes(k) == LE32(adler32(SectorOf(data, k - 1, sectorSize)))
        secBytes(k) == StoredSector(SectorOf(data, k - 1, sectorSize))
    IN ConcatMap(offBytes, 1, numSectors + 1)
       \o (IF useCRC THEN ConcatMap(crcBytes, 1, numSectors) ELSE << >>)
       \o ConcatMap(secBytes, 1, numSectors)

(***************************************************************************)
(* crypt.go:855-893 attributesWriter                                       *)
(***************************************************************************)
attributesVersion == 100
attributesFlagCRC32 == 1

newAttributesWriter(fileCount) == [i \in 1..fileCount |-> << 0, 0 >>]

\* setEntry with a non-nil data
setEntry(attr, index, data) ==
    IF index < 0 \/ index >= Len(attr) THEN attr
    ELSE [attr EXCEPT ![index + 1] = crc32(data)]

\* setEntry with nil data
setEntryNil(attr, index) ==
    IF index < 0 \/ index >= Len(attr) THEN attr
    ELSE [attr EXCEPT ![index + 1] = << 0, 0 >>]

attributesBuild(attr) ==
    IF Len(attr) = 0 THEN << >>
    ELSE LET e(k) == LE32(attr[k])
         IN LE32(U32(attributesVersion)) \o LE32(U32(attributesFlagCRC32))
            \o ConcatMap(e, 1, Len(attr))

(***************************************************************************)
(* crypt.go:159-499 writeArchive                                           *)
(***************************************************************************)
OrIf(flags, cond, f) == IF cond THEN Or32(flags, f) ELSE flags

\* the end of every file's write (crypt.go:292-311, 343-361, 400-415): the bytes
\* go out, the block entry is appended and the name enters the hash table
recordEntry(st, dataToWrite, blockTable, ins, what) ==
    IF ins.err # ""
    THEN [st EXCEPT !.out = @ \o dataToWrite, !.blockTable = blockTable, !.err = what]
    ELSE [st EXCEPT !.out = @ \o dataToWrite, !.blockTable = blockTable,
                    !.hashTable = ins.val]

appendEntry(a, st, mpqPath, dataToWrite, fileSize, flags, what) ==
    recordEntry(st, dataToWrite,
                Append(st.blockTable,
                       [FilePos |-> a.header.HeaderSize + Len(st.out),
                        CompressedSize |-> Len(dataToWrite), FileSize |-> fileSize,
                        Flags |-> flags]),
                addToHashTable(st.hashTable, a.header.HashTableSize, mpqPath,
                               U32(Len(st.blockTable))),
                what)

\* crypt.go:268-281 : the single unit's bytes, with their adler32 if requested
withCRC(unit, useSectorCRC) ==
    IF useSectorCRC THEN unit \o LE32(adler32(unit)) ELSE unit

\* crypt.go:256-284 : a single-unit file as stored, and its flags
singleUnit(pf, compressedData) ==
    [data |-> withCRC(IF Len(compressedData) < Len(pf.data) THEN compressedData
                      ELSE pf.data, pf.generateCRC),
     flags |-> OrIf(OrIf(Or32(fileExists, fileSingleUnit),
                         Len(compressedData) < Len(pf.data), fileCompress),
                    pf.generateCRC, fileSectorCRC)]

\* crypt.go:245-255 : a sectored file as stored, and its flags
sectored(a, pf) ==
    [data |-> writeSectoredFile(pf.data, a.sectorSize, pf.generateCRC),
     flags |-> OrIf(Or32(fileExists, fileCompress), pf.generateCRC, fileSectorCRC)]

\* crypt.go:286-311 : the encoded file e of pending entry i is written
storePending(a, st, i, pf, e) ==
    appendEntry(a, [st EXCEPT !.attr = setEntry(@, i - 1, pf.data)], pf.mpqPath,
                e.data, Len(pf.data), OrIf(e.flags, pf.isPatchFile, filePatchFile),
                "add to hash table: hash table full")

\* crypt.go:237, 313 : the listfile line of a written entry
listPending(st, pf) ==
    IF st.err # "" THEN st ELSE [st EXCEPT !.list = @ \o pf.mpqPath \o CRLF]

\* writePending with the boundary at one sector: what C12 must tell from it
writePendingAtSector(a, st, i, pf) ==
    listPending(IF pf.isDeleteMarker
                THEN appendEntry(a, st, pf.mpqPath, << >>, 0,
                                 Or32(fileDeleteMarker, fileExists),
                                 "add to hash table: hash table full")
                ELSE storePending(a, st, i, pf,
                                  IF Len(pf.data) > a.sectorSize THEN sectored(a, pf)
                                  ELSE singleUnit(pf, compressData(pf.data))),
                pf)

\* one iteration of the loop over pendingFiles (crypt.go:204-314); st carries
\* the bytes written so far, both tables, the listfile text and the CRC32s
writePending(a, st, i, pf) ==
    listPending(IF pf.isDeleteMarker
                THEN appendEntry(a, st, pf.mpqPath, << >>, 0,
                                 Or32(fileDeleteMarker, fileExists),
                                 "add to hash table: hash table full")
                ELSE storePending(a, st, i, pf,
                                  IF Len(pf.data) > a.sectorSize * 2 THEN sectored(a, pf)
                                  ELSE singleUnit(pf, compressData(pf.data))),
                pf)

writeFile(a, st, i) == writePending(a, st, i, a.pendingFiles[i])

RECURSIVE writeFiles(_, _, _)
writeFiles(a, st, i) ==
    IF i > Len(a.pendingFiles) \/ st.err # "" THEN st
    ELSE writeFiles(a, writeFile(a, st, i), i + 1)

\* a special file, always single-unit (crypt.go:316-362 and 378-416)
storeSpecial(a, st, name, content, what, compressed) ==
    appendEntry(a, st, name,
                IF Len(compressed) < Len(content) THEN compressed ELSE content,
                Len(content),
                OrIf(Or32(fileExists, fileSingleUnit),
                     Len(compressed) < Len(content), fileCompress),
                what)

writeSpecial(a, st, name, content, what) ==
    storeSpecial(a, st, name, content, what, compressData(content))

hashTableWords(hashTable) ==
    LET e(k) == << hashTable[k].HashA, hashTable[k].HashB,
                   << hashTable[k].Platform, hashTable[k].Locale >>,
                   hashTable[k].BlockIndex >>
    IN ConcatMap(e, 1, Len(hashTable))

blockTableWords(blockTable) ==
    LET e(k) == << U32(blockTable[k].FilePos), U32(blockTable[k].CompressedSize),
                   U32(blockTable[k].FileSize), blockTable[k].Flags >>
    IN ConcatMap(e, 1, Len(blockTable))

\* crypt.go:182-202 : the state the writing starts from
newWriteState(a) ==
    [out |-> << >>, blockTable |-> << >>,
     hashTable |-> [k \in 1..Len(a.hashTable) |-> emptyHashEntry],
     list |-> << >>,
     attr |-> newAttributesWriter(IF Len(a.pendingFiles) > 0 THEN Len(a.pendingFiles) + 2
                                  ELSE Len(a.pendingFiles)),
     err |-> ""]

\* (listfile) written with no CRC32 taken of its content
writeListfileUnsummed(a, st1) ==
    IF st1.err = "" /\ st1.list # << >>
    THEN writeSpecial(a, st1, LISTFILE, st1.list,
                      "add listfile to hash table: hash table full")
    ELSE st1

\* crypt.go:316-362 : (listfile)
writeListfile(a, st1) ==
    IF st1.err = "" /\ st1.list # << >>
    THEN writeSpecial(a, [st1 EXCEPT !.attr = setEntry(@, Len(a.pendingFiles), st1.list)],
                      LISTFILE, st1.list, "add listfile to hash table: hash table full")
    ELSE st1

\* crypt.go:378-416 : (attributes), given the table as built
storeAttributes(a, st2, attributesData) ==
    IF st2.err = "" /\ Len(attributesData) > 0
    THEN writeSpecial(a, st2, ATTRIBUTES, attributesData,
                      "add attributes to hash table: hash table full")
    ELSE st2

\* crypt.go:364-376
writeAttributes(a, st2) ==
    storeAttributes(a, st2,
        attributesBuild(setEntryNil(st2.attr,
            Len(a.pendingFiles) + (IF st2.list # << >> THEN 1 ELSE 0))))

\* crypt.go:418-497 : the header as rewritten
writtenHeader(a, st3) ==
    [a.header EXCEPT !.HashTableOffset = a.header.HeaderSize + Len(st3.out),
                     !.BlockTableOffset = a.header.HeaderSize + Len(st3.out)
                                          + 16 * Len(st3.hashTable),
                     !.BlockTableSize = Len(st3.blockTable)]

\* crypt.go:418-497 : the tables and the header; the result is err, the handle
\* as writeArchive leaves it, and the temp file
writeTables(a, st3) ==
    IF st3.err # ""
    THEN [err |-> st3.err,
          a |-> [a EXCEPT !.hashTable = st3.hashTable, !.blockTable = st3.blockTable],
          file |-> NoFile]
    ELSE [err |-> "",
          a |-> [a EXCEPT !.hashTable = st3.hashTable, !.blockTable = st3.blockTable,
                          !.header = writtenHeader(a, st3)],
          file |-> [exists |-> TRUE, complete |-> TRUE, header |-> writtenHeader(a, st3),
                    data |-> st3.out,
                    hashTableData |-> encryptBlock(hashTableWords(st3.hashTable),
                                                   hashTableCryptKey),
                    blockTableData |-> encryptBlock(blockTableWords(st3.blockTable),
                                                    blockTableCryptKey)]]

writeArchive(a) ==
    writeTables(a, writeAttributes(a, writeListfile(a, writeFiles(a, newWriteState(a), 1))))

(***************************************************************************)
(* mpq.go:55-122 Create / CreateV2 / CreateWithVersion                     *)
(***************************************************************************)
\* mpq.go:1088-1100, on a word
OrShr(n, k) == Or32(n, Shr32(n, k))

nextPowerOf2(n) ==
    IF n = << 0, 0 >> THEN U32(1)
    ELSE Add32(OrShr(OrShr(OrShr(OrShr(OrShr(Sub32(n, U32(1)), 1), 2), 4), 8), 16), U32(1))

\* mpq.go:82-86 ; uint32(float64(maxFiles) * 1.5) truncates toward zero
atLeast16(hashTableSize) == IF hashTableSize < 16 THEN 16 ELSE hashTableSize

\* the power of two that holds maxFiles entries and no more: what C27 must
\* tell from the size taken
hashTableSizeBare(maxFiles) == Nat32(nextPowerOf2(U32(maxFiles)))

hashTableSizeFor(maxFiles) == atLeast16(Nat32(nextPowerOf2(U32((maxFiles * 3) \div 2))))

newArchiveSized(hashTableSize, version) ==
    [mode |-> "w",
     header |-> [HeaderSize |-> IF version = FormatV2 THEN headerSizeV2 ELSE headerSizeV1,
                 FormatVersion |-> IF version = FormatV2 THEN formatVersion2 ELSE formatVersion1,
                 SectorSizeShift |-> SectorShift,
                 HashTableOffset |-> 0, BlockTableOffset |-> 0,
                 HashTableSize |-> hashTableSize, BlockTableSize |-> 0],
     hashTable |-> [k \in 1..hashTableSize |->
                      [HashA |-> << 0, 0 >>, HashB |-> << 0, 0 >>, Locale |-> 0,
                       Platform |-> 0, BlockIndex |-> << 0, 0 >>]],
     blockTable |-> << >>,
     pendingFiles |-> << >>,
     removedFiles |-> {},
     sectorSize |-> 2 ^ SectorShift,
     formatVersion |-> version,
     file |-> NoFile]

newArchive(maxFiles, version) == newArchiveSized(hashTableSizeFor(maxFiles), version)

(***************************************************************************)
(* mpq.go:126-229 Open ; mpq.go:234-360 OpenForModify                      *)
(***************************************************************************)
hashTableOf(words, n) ==
    [k \in 1..n |-> [HashA |-> words[4 * k - 3], HashB |-> words[4 * k - 2],
                     Locale |-> words[4 * k - 1][2], Platform |-> words[4 * k - 1][1],
                     BlockIndex |-> words[4 * k]]]

blockTableOf(words, n) ==
    [k \in 1..n |-> [FilePos |-> Nat32(words[4 * k - 3]),
                     CompressedSize |-> Nat32(words[4 * k - 2]),
                     FileSize |-> Nat32(words[4 * k - 1]),
                     Flags |-> words[4 * k]]]

\* what both Open and OpenForModify load from the file; val is the handle
loadArchive(file, mode) ==
    IF ~file.exists THEN Fail("open file")
    ELSE IF ~file.complete THEN Fail("read header")
    ELSE IF file.header.FormatVersion > formatVersion2
    THEN Fail("unsupported MPQ format version")
    ELSE IF Len(file.hashTableData) < 4 * file.header.HashTableSize
    THEN Fail("read hash table")
    ELSE IF Len(file.blockTableData) < 4 * file.header.BlockTableSize
    THEN Fail("read block table")
    ELSE Ok([mode |-> mode,
             header |-> file.header,
             hashTable |-> hashTableOf(decryptBlock(file.hashTableData, hashTableCryptKey),
                                       file.header.HashTableSize),
             blockTable |-> blockTableOf(decryptBlock(file.blockTableData, blockTableCryptKey),
                                         file.header.BlockTableSize),
             pendingFiles |-> << >>,
             removedFiles |-> {},
             sectorSize |-> 2 ^ file.header.SectorSizeShift,
             formatVersion |-> IF mode = "m" /\ file.header.FormatVersion >= formatVersion2
                               THEN FormatV2 ELSE FormatV1,
             file |-> file])

(***************************************************************************)
(* crypt.go:87-146 decryptBytes, getFileKey                                *)
(***************************************************************************)
wordsOf(data) == [k \in 1..(Len(data) \div 4) |-> Word32At(data, 4 * (k - 1))]

bytesOf(words) == LET e(k) == LE32(words[k]) IN ConcatMap(e, 1, Len(words))

\* the padded copy made for a length that is no multiple of 4 is dropped, and
\* the caller's slice stays as it was
decryptBytes(data, key) ==
    IF Len(data) % 4 # 0 THEN data ELSE bytesOf(decryptBlock(wordsOf(data), key))

RECURSIVE lastIndexOfSlash(_, _)
lastIndexOfSlash(s, i) ==
    IF i < 1 THEN 0
    ELSE IF s[i] = 92 \/ s[i] = 47 THEN i ELSE lastIndexOfSlash(s, i - 1)

\* crypt.go:129-134
adjustKey(key, blockOffset, fileSize, flags) ==
    IF HasFlag(flags, fileFixKey)
    THEN Xor32(Add32(key, U32(blockOffset)), U32(fileSize))
    ELSE key

getFileKey(filename, blockOffset, fileSize, flags) ==
    adjustKey(hashString(Drop(filename, lastIndexOfSlash(filename, Len(filename))),
                         hashTypeFileKey),
              blockOffset, fileSize, flags)

(***************************************************************************)
(* mpq.go:592-770 single-unit and sectored decoders                        *)
(***************************************************************************)
\* the adler32 check of a payload followed by its 4 CRC bytes
checkTrailingCRC(payload, crcBytes) ==
    IF adler32(payload) # Word32At(crcBytes, 0) THEN Fail("sector CRC mismatch")
    ELSE Ok(payload)

\* mpq.go:597-617, on the decrypted bytes
decodeSingleUnit(data, block) ==
    IF HasFlag(block.Flags, fileCompress) /\ block.CompressedSize < block.FileSize
    THEN decompressData(data, block.FileSize)
    ELSE IF HasFlag(block.Flags, fileSectorCRC)
    THEN IF Len(data) < 4 THEN Fail("missing sector CRC for single unit file")
         ELSE checkTrailingCRC(Take(data, Len(data) - 4), Drop(data, Len(data) - 4))
    ELSE Ok(data)

decryptAndDecompressSingleUnit(data0, block, key) ==
    decodeSingleUnit(decryptBytes(data0, key), block)

expectedSectorSize(block, sectorSize, i) ==
    IF i = NumSectors(block.FileSize, sectorSize) - 1
    THEN block.FileSize - i * sectorSize
    ELSE sectorSize

\* mpq.go:741-767
RECURSIVE plainSectors(_, _, _, _, _)
plainSectors(data, block, sectorSize, offsetTable, i) ==
    IF i >= NumSectors(block.FileSize, sectorSize) THEN Ok(<< >>)
    ELSE LET sectorStart == offsetTable[i + 1]
             sectorEnd == offsetTable[i + 2]
         IN IF sectorStart > Len(data) \/ sectorEnd > Len(data) \/ sectorEnd < sectorStart
            THEN Fail("invalid sector offsets")
            ELSE LET sectorData == SubSeq(data, sectorStart + 1, sectorEnd)
                     expectedSize == expectedSectorSize(block, sectorSize, i)
                     join(this, rest) ==
                         IF this.err # "" THEN Fail("decompress sector")
                         ELSE IF rest.err # "" THEN rest
                         ELSE Ok(this.val \o rest.val)
                 IN join(IF Len(sectorData) < expectedSize
                         THEN decompressData(sectorData, expectedSize)
                         ELSE Ok(sectorData),
                         plainSectors(data, block, sectorSize, offsetTable, i + 1))

decompressSectors(data, block, sectorSize) ==
    LET numSectors == NumSectors(block.FileSize, sectorSize)
        offsetTableSize == (numSectors + 1) * 4
    IN IF Len(data) < offsetTableSize THEN Fail("data too small for sector offset table")
       ELSE plainSectors(data, block, sectorSize,
                         [k \in 1..(numSectors + 1) |-> Nat32(Word32At(data, 4 * (k - 1)))], 0)

\* mpq.go:683-699 : a decrypted sector, decompressed if it is short
decodeSector(sectorData, block, expectedSize) ==
    IF HasFlag(block.Flags, fileCompress) /\ Len(sectorData) < expectedSize
    THEN decompressData(sectorData, expectedSize)
    ELSE Ok(sectorData)

\* mpq.go:701-709 : the sector this joins the sectors after it
joinSector(this, rest, sectorCRCs, i) ==
    IF this.err # "" THEN Fail("decompress sector")
    ELSE IF Len(sectorCRCs) > 0 /\ adler32(this.val) # sectorCRCs[i + 1]
    THEN Fail("sector CRC mismatch")
    ELSE IF rest.err # "" THEN rest
    ELSE Ok(this.val \o rest.val)

\* mpq.go:667-710
RECURSIVE cipherSectors(_, _, _, _, _, _, _)
cipherSectors(data, block, sectorSize, key, offsetTable, sectorCRCs, i) ==
    IF i >= NumSectors(block.FileSize, sectorSize) THEN Ok(<< >>)
    ELSE IF \/ Nat32(offsetTable[i + 1]) > Len(data)
            \/ Nat32(offsetTable[i + 2]) > Len(data)
            \/ Nat32(offsetTable[i + 2]) < Nat32(offsetTable[i + 1])
    THEN Fail("invalid sector offsets")
    ELSE joinSector(decodeSector(decryptBytes(SubSeq(data, Nat32(offsetTable[i + 1]) + 1,
                                                     Nat32(offsetTable[i + 2])),
                                              Add32(key, U32(i))),
                                 block, expectedSectorSize(block, sectorSize, i)),
                    cipherSectors(data, block, sectorSize, key, offsetTable, sectorCRCs,
                                  i + 1),
                    sectorCRCs, i)

\* mpq.go:621-663 : the sectors, once the offset table is decrypted
decryptSectors(data, block, sectorSize, key, offsetTable) ==
    LET numSectors == NumSectors(block.FileSize, sectorSize)
        offsetTableSize == (numSectors + 1) * 4
        crcTableEnd == offsetTableSize + numSectors * 4
        wantCRCs == /\ HasFlag(block.Flags, fileSectorCRC)
                    /\ Nat32(offsetTable[1]) >= crcTableEnd
    IN IF wantCRCs /\ crcTableEnd > Len(data)
       THEN Fail("sector CRC table out of range")
       ELSE cipherSectors(data, block, sectorSize, key, offsetTable,
                IF wantCRCs
                THEN decryptBlock(wordsOf(SubSeq(data, offsetTableSize + 1, crcTableEnd)),
                                  Add32(Sub32(key, U32(1)), U32(numSectors)))
                ELSE << >>,
                0)

decryptAndDecompressSectors(data, block, sectorSize, key) ==
    IF Len(data) < (NumSectors(block.FileSize, sectorSize) + 1) * 4
    THEN Fail("data too small for sector offset table")
    ELSE decryptSectors(data, block, sectorSize, key,
             decryptBlock(wordsOf(Take(data, (NumSectors(block.FileSize, sectorSize) + 1) * 4)),
                          Sub32(key, U32(1))))

(***************************************************************************)
(* mpq.go:472-590 ExtractFile                                              *)
(***************************************************************************)
\* io.ReadFull of CompressedSize bytes at the block's position
readBlock(a, block) ==
    LET off == block.FilePos - a.file.header.HeaderSize
    IN IF off < 0 \/ off + block.CompressedSize > Len(a.file.data) THEN Fail("read file data")
       ELSE Ok(SubSeq(a.file.data, off + 1, off + block.CompressedSize))

\* mpq.go:500-517, 983-996 : an encrypted block, given its key
decryptFile(a, block, data, key) ==
    IF HasFlag(block.Flags, fileSingleUnit)
    THEN decryptAndDecompressSingleUnit(data, block, key)
    ELSE decryptAndDecompressSectors(data, block, a.sectorSize, key)

\* mpq.go:532-543 : the decompressed single unit against its trailing adler32
verifySingleUnit(decompressed, crcBytes) ==
    IF decompressed.err # "" THEN Fail("decompress file")
    ELSE checkTrailingCRC(decompressed.val, crcBytes)

\* the decoding of a block's stored bytes (mpq.go:497-578)
decodeBlock(a, mpqPath, block, compressedData) ==
    IF HasFlag(block.Flags, fileEncrypted)
    THEN decryptFile(a, block, compressedData,
                     getFileKey(mpqPath, block.FilePos, block.FileSize, block.Flags))
    ELSE IF HasFlag(block.Flags, fileCompress)
    THEN IF HasFlag(block.Flags, fileSingleUnit)
         THEN IF HasFlag(block.Flags, fileSectorCRC)
              THEN IF Len(compressedData) < 4
                   THEN Fail("missing sector CRC for single unit file")
                   ELSE verifySingleUnit(
                            decompressData(Take(compressedData, Len(compressedData) - 4),
                                           block.FileSize),
                            Drop(compressedData, Len(compressedData) - 4))
              ELSE IF block.CompressedSize < block.FileSize
                   THEN decompressData(compressedData, block.FileSize)
                   ELSE Ok(compressedData)
         ELSE decompressSectors(compressedData, block, a.sectorSize)
    ELSE IF HasFlag(block.Flags, fileSingleUnit) /\ HasFlag(block.Flags, fileSectorCRC)
    THEN IF Len(compressedData) < 4 THEN Fail("missing sector CRC for single unit file")
         ELSE checkTrailingCRC(Take(compressedData, Len(compressedData) - 4),
                               Drop(compressedData, Len(compressedData) - 4))
    ELSE Ok(compressedData)

\* mpq.go:489-578 : the block is read and decoded
extractBlock(a, mpqPath, block, compressedData) ==
    IF compressedData.err # "" THEN compressedData
    ELSE decodeBlock(a, mpqPath, block, compressedData.val)

\* mpq.go:480-487 : idx is what findFile gave
extractAt(a, mpqPath, idx) ==
    IF idx < 0 THEN Fail("file not found")
    ELSE extractBlock(a, mpqPath, a.blockTable[idx + 1],
                      readBlock(a, a.blockTable[idx + 1]))

\* val is what ExtractFile writes to the destination
ExtractFile(a, mpqPath0) ==
    IF a.mode # "r" /\ a.mode # "m" THEN Fail("archive not opened for reading")
    ELSE extractAt(a, SlashToBackslash(mpqPath0), findFile(a, SlashToBackslash(mpqPath0)))

(***************************************************************************)
(* mpq.go:773-831 ListFiles, HasFile                                       *)
(***************************************************************************)
\* strings.ReplaceAll(content, "\r\n", "\n")
ReplaceCRLF(data) ==
    LET step(out, i) ==
            IF data[i] = 13 /\ i < Len(data) /\ data[i + 1] = 10 THEN out
            ELSE Append(out, data[i])
    IN FoldRange(step, 1, Len(data), << >>)

\* strings.Split(content, "\n")
SplitLines(content) ==
    LET step(st, i) ==
            IF content[i] = 10 THEN << Append(st[1], st[2]), << >> >>
            ELSE << st[1], Append(st[2], content[i]) >>
        st == FoldRange(step, 1, Len(content), << << >>, << >> >>)
    IN Append(st[1], st[2])

IsSpace(c) == c \in {9, 10, 11, 12, 13, 32}

\* strings.TrimSpace
TrimSpace(line) ==
    LET keep == {i \in 1..Len(line) : ~IsSpace(line[i])}
    IN IF keep = {} THEN << >>
       ELSE SubSeq(line, CHOOSE i \in keep : \A j \in keep : i <= j,
                         CHOOSE i \in keep : \A j \in keep : i >= j)

\* mpq.go:796-806 : the lines kept
keepLine(files, line) ==
    IF line # << >> /\ line # LISTFILE THEN Append(files, line) ELSE files

collectLines(lines) ==
    LET step(files, i) == keepLine(files, TrimSpace(lines[i]))
    IN Ok(FoldRange(step, 1, Len(lines), << >>))

\* mpq.go:787-808 : the listfile as extracted
parseListfile(listfile) ==
    IF listfile.err # "" THEN Fail("extract listfile")
    ELSE collectLines(SplitLines(ReplaceCRLF(listfile.val)))

ListFiles(a) ==
    IF a.mode # "r" /\ a.mode # "m" THEN Fail("archive not opened for reading")
    ELSE parseListfile(ExtractFile(a, LISTFILE))

\* the first pending file whose path equals mpqPath under case folding
firstPending(a, mpqPath) ==
    LET hits == {i \in 1..Len(a.pendingFiles) : EqualFold(a.pendingFiles[i].mpqPath, mpqPath)}
    IN IF hits = {} THEN 0 ELSE CHOOSE i \in hits : \A j \in hits : i <= j

\* whether block idx exists and carries flag f, or lacks it
flagAt(a, idx, f, want) ==
    idx >= 0 /\ (HasFlag(a.blockTable[idx + 1].Flags, f) <=> want)

HasFile(a, mpqPath0) ==
    IF a.mode = "w"
    THEN LET live(i) == i > 0 /\ ~a.pendingFiles[i].isDeleteMarker
         IN live(firstPending(a, SlashToBackslash(mpqPath0)))
    ELSE flagAt(a, findFile(a, mpqPath0), fileDeleteMarker, FALSE)

\* mpq.go:834-859
IsDeleteMarker(a, mpqPath) ==
    a.mode = "r" /\ flagAt(a, findFile(a, mpqPath), fileDeleteMarker, TRUE)

IsPatchFile(a, mpqPath) ==
    a.mode = "r" /\ flagAt(a, findFile(a, mpqPath), filePatchFile, TRUE)

(***************************************************************************)
(* mpq.go:909-1055 buildModifiedFileList                                   *)
(***************************************************************************)
PendingFile(mpqPath, data, generateCRC, isPatchFile, isDeleteMarker) ==
    [mpqPath |-> mpqPath, data |-> data, generateCRC |-> generateCRC,
     isPatchFile |-> isPatchFile, isDeleteMarker |-> isDeleteMarker]

\* the map built from a.pendingFiles: its keys, and the entry under a key
\* (a later entry overwrites an earlier one)
pendingKeys(a) == {SlashToBackslash(a.pendingFiles[i].mpqPath) : i \in 1..Len(a.pendingFiles)}

pendingMap(a, key) ==
    LET hits == {i \in 1..Len(a.pendingFiles) : SlashToBackslash(a.pendingFiles[i].mpqPath) = key}
    IN a.pendingFiles[CHOOSE i \in hits : \A j \in hits : i >= j]

\* fmt.Errorf(what + ": %w", err)
wrapErr(r, what) == IF r.err # "" THEN Fail(what) ELSE r

\* mpq.go:1001-1008
dataToDecompress(block, fileData) ==
    IF HasFlag(block.Flags, fileSectorCRC) THEN Take(fileData, Len(fileData) - 4)
    ELSE fileData

\* the path separators of the build: '/' everywhere but on Windows, where
\* '\' separates as well
SeparatorsUnix == {47}
SeparatorsWindows == {47, 92}

\* filepath.Base: trailing separators go, the part after the last separator
\* stays, "." for an empty path
RECURSIVE filepathBase(_, _)
filepathBase(path, separators) ==
    IF path = << >> THEN << 46 >>
    ELSE IF path[Len(path)] \in separators
    THEN IF Len(path) = 1 THEN path
         ELSE filepathBase(Take(path, Len(path) - 1), separators)
    ELSE LET RECURSIVE lastSeparator(_)
             lastSeparator(k) == IF k < 1 THEN 0
                                 ELSE IF path[k] \in separators THEN k
                                 ELSE lastSeparator(k - 1)
         IN Drop(path, lastSeparator(Len(path)))

\* mpq.go:984-987 : the key of an existing encrypted file
existingFileKey(normalizedPath, block, separators) ==
    adjustKey(hashString(filepathBase(normalizedPath, separators), hashTypeFileKey),
              block.FilePos, block.FileSize, block.Flags)

\* the content of an existing file, decoded for re-adding (mpq.go:981-1034);
\* the archives written here hold no encrypted file, so the separators of the
\* build do not show in what Close does with them
extractExisting(a, normalizedPath, block, fileData) ==
    IF HasFlag(block.Flags, fileEncrypted)
    THEN wrapErr(decryptFile(a, block, fileData,
                             existingFileKey(normalizedPath, block, SeparatorsUnix)),
                 "decrypt file")
    ELSE IF HasFlag(block.Flags, fileCompress)
    THEN IF HasFlag(block.Flags, fileSingleUnit)
         THEN IF HasFlag(block.Flags, fileSectorCRC) /\ Len(fileData) < 4
              THEN Fail("file too short for CRC")
              ELSE IF block.CompressedSize < block.FileSize
              THEN wrapErr(decompressData(dataToDecompress(block, fileData), block.FileSize),
                           "decompress file")
              ELSE Ok(dataToDecompress(block, fileData))
         ELSE wrapErr(decompressSectors(fileData, block, a.sectorSize), "decompress sectors")
    ELSE IF HasFlag(block.Flags, fileSingleUnit) /\ HasFlag(block.Flags, fileSectorCRC)
    THEN IF Len(fileData) < 4 THEN Fail("file too short for CRC")
         ELSE Ok(Take(fileData, Len(fileData) - 4))
    ELSE Ok(fileData)

\* mpq.go:1036-1043 : the decoded content is queued again
mergeData(st, normalizedPath, block, extractedData) ==
    IF extractedData.err # "" THEN [st EXCEPT !.err = extractedData.err]
    ELSE [st EXCEPT !.list = Append(@, PendingFile(normalizedPath, extractedData.val,
                                                    HasFlag(block.Flags, fileSectorCRC),
                                                    HasFlag(block.Flags, filePatchFile),
                                                    FALSE))]

\* mpq.go:961-1034 : the block as read
mergeBlock(a, st, normalizedPath, block, fileData) ==
    IF fileData.err # "" THEN [st EXCEPT !.err = "read file"]
    ELSE IF ~HasFlag(block.Flags, fileExists) \/ HasFlag(block.Flags, fileDeleteMarker)
    THEN [st EXCEPT !.list = Append(@, PendingFile(normalizedPath, << >>,
                                                    FALSE, FALSE, TRUE))]
    ELSE mergeData(st, normalizedPath, block,
                   extractExisting(a, normalizedPath, block, fileData.val))

\* mpq.go:954-960 : idx is what findFile gave
mergeExisting(a, st, normalizedPath, idx) ==
    IF idx < 0 THEN st
    ELSE mergeBlock(a, st, normalizedPath, a.blockTable[idx + 1],
                    readBlock(a, a.blockTable[idx + 1]))

\* mpq.go:928-952
mergePath(a, st, normalizedPath) ==
    IF st.err # "" THEN st
    ELSE IF normalizedPath \in a.removedFiles THEN st
    ELSE IF normalizedPath = LISTFILE \/ normalizedPath = ATTRIBUTES THEN st
    ELSE IF normalizedPath \in st.keys
    THEN [st EXCEPT !.list = Append(@, pendingMap(a, normalizedPath)),
                    !.keys = @ \ {normalizedPath}]
    ELSE mergeExisting(a, st, normalizedPath, findFile(a, normalizedPath))

\* one iteration of the loop over the listed files (mpq.go:927-1044); st is
\* [a, fileList, list, keys, err]: the handle, the listed files, the new pending
\* list, the keys still in the map, the error that ended the loop
mergeStep(st, i) == mergePath(st.a, st, SlashToBackslash(st.fileList[i]))

\* the orders in which a range over a Go map can yield the keys
Orders(keys) ==
    {order \in [1..Cardinality(keys) -> keys] :
        \A i, j \in 1..Cardinality(keys) : order[i] = order[j] => i = j}

\* mpq.go:1046-1054 : the pending files not met in the archive follow
mergeLeftovers(a, st) ==
    IF st.err # "" THEN {[err |-> st.err, a |-> a]}
    ELSE {[err |-> "",
           a |-> [a EXCEPT !.pendingFiles =
                     st.list \o [k \in 1..Len(order) |-> pendingMap(a, order[k])]]] :
          order \in Orders(st.keys)}

\* mpq.go:911-1044 : the list of the archive's files as read
mergeList(a, fileList) ==
    IF fileList.err # "" THEN {[err |-> "list files", a |-> a]}
    ELSE mergeLeftovers(a, FoldRange(mergeStep, 1, Len(fileList.val),
                                     [a |-> a, fileList |-> fileList.val, list |-> << >>,
                                      keys |-> pendingKeys(a), err |-> ""]))

\* the outcomes of buildModifiedFileList: err, and the handle it leaves
buildModifiedFileList(a) == mergeList(a, ListFiles(a))

(***************************************************************************)
(* The archive specification: one archive path, one handle at a time      *)
(***************************************************************************)
\* the payloads of the source files: none; a run of zeros stored as a single
\* unit, whose compressed form with its 4 checksum bytes is longer than the
\* run; more than two sectors, one compressible, one incompressible, one short
Empty == << >>
Zeros == Rep(0, 2 * (2 ^ SectorShift) - 2)
Sectored == Rep(0, 2 ^ SectorShift) \o [i \in 1..(2 ^ SectorShift) |-> i] \o << 7 >>

\* the archive paths the calls are made with: a, A, d/b, d\b
PathLowerA == << 97 >>
PathUpperA == << 65 >>
PathSlash == << 100, 47, 98 >>
PathBackslash == << 100, 92, 98 >>
Paths == {PathLowerA, PathUpperA, PathSlash}

\* the calls to AddFile, AddFileWithCRC, AddPatchFile and AddDeleteMarker
AddFileCalls == {<< PathUpperA, Empty >>}
AddFileWithCRCCalls == {<< PathLowerA, Zeros >>}
AddPatchFileCalls == {<< PathSlash, Sectored >>}
AddDeleteMarkerCalls == {PathBackslash}

\* the maxFiles given to Create
CreateMaxFiles == {4}

Result(op, path, err) ==
    [op |-> op, path |-> path, err |-> err, has |-> FALSE, files |-> << >>, count |-> 0,
     block |-> -1]

FileOf(data) == [exists |-> TRUE, complete |-> TRUE, data |-> data]

Init ==
    /\ disk = [target |-> NoFile, temp |-> NoFile]
    /\ arc = NoHandle
    /\ pc = "idle"
    /\ result = Result("", << >>, "")
    /\ dest = NoFile
    /\ written = << >>
    /\ log = << >>
    /\ before = NoFile
    /\ chain = NoChain
    /\ given = << >>
    /\ sizing = [maxFiles |-> 0, a |-> NoHandle]

\* no handle is in use
MayConstruct == arc.mode = "none" /\ pc = "idle"

\* another archive may be written: the bound is not reached and no save failed
MayWrite == Len(written) < MaxRewrites /\ \A k \in 1..Len(written) : written[k].saved

\* the handle in use takes a call
MayCall == arc.mode # "none" /\ pc = "idle"

\* the handle in use takes another add or removal
MayChange ==
    /\ MayCall
    /\ arc.mode = "w" => Len(arc.pendingFiles) < MaxPending
    /\ arc.mode = "m" => Len(log) < MaxModify

\* a call other than ExtractFile returns: no destination file is involved
Returns(r) == result' = r /\ dest' = NoFile

\* mpq.go:67-122 ; the archive is created at a free path
CreateWithVersion(version) ==
    /\ MayConstruct /\ MayWrite
    /\ ~disk.target.exists
    /\ \E maxFiles \in CreateMaxFiles : arc' = newArchive(maxFiles, version)
    /\ disk' = [disk EXCEPT !.temp = Truncated]
    /\ Returns(Result("Create", << >>, ""))
    /\ log' = << >>
    /\ UNCHANGED << pc, written, before, chain, given, sizing >>

Create == CreateWithVersion(FormatV1)

CreateV2 == CreateWithVersion(FormatV2)

\* mpq.go:126-229
Open ==
    /\ MayConstruct
    /\ \E r \in {loadArchive(disk.target, "r")} :
          /\ arc' = IF r.err = "" THEN r.val ELSE arc
          /\ Returns(Result("Open", << >>, r.err))
    /\ log' = << >>
    /\ UNCHANGED << disk, pc, written, before, chain, given, sizing >>

\* mpq.go:234-360
OpenForModify ==
    /\ MayConstruct /\ MayWrite
    /\ \E r \in {loadArchive(disk.target, "m")} :
          /\ arc' = IF r.err = "" THEN r.val ELSE arc
          /\ disk' = IF r.err = "" THEN [disk EXCEPT !.temp = Truncated] ELSE disk
          /\ Returns(Result("OpenForModify", << >>, r.err))
    /\ log' = << >>
    /\ UNCHANGED << pc, written, before, chain, given, sizing >>

\* addPending without the check of the mode: what C9 must tell from it
addPendingInAnyMode(op, mpqPath, data, generateCRC, isPatchFile, isDeleteMarker) ==
    /\ MayChange
    /\ LET pf == PendingFile(SlashToBackslash(mpqPath), data, generateCRC,
                             isPatchFile, isDeleteMarker)
       IN /\ arc' = [arc EXCEPT !.pendingFiles = Append(@, pf)]
          /\ log' = Append(log, [op |-> op, mpqPath |-> mpqPath, pf |-> pf])
          /\ Returns(Result(op, mpqPath, ""))
    /\ UNCHANGED << disk, pc, written, before, chain, given, sizing >>

\* the common body of the four adding calls (mpq.go:379-446)
addPending(op, mpqPath, data, generateCRC, isPatchFile, isDeleteMarker) ==
    /\ MayChange
    /\ IF arc.mode # "w" /\ arc.mode # "m"
       THEN /\ Returns(Result(op, mpqPath, "archive not opened for writing or modification"))
            /\ UNCHANGED << arc, log >>
       ELSE LET pf == PendingFile(SlashToBackslash(mpqPath), data, generateCRC,
                                  isPatchFile, isDeleteMarker)
            IN /\ arc' = [arc EXCEPT !.pendingFiles = Append(@, pf)]
               /\ log' = Append(log, [op |-> op, mpqPath |-> mpqPath, pf |-> pf])
               /\ Returns(Result(op, mpqPath, ""))
    /\ UNCHANGED << disk, pc, written, before, chain, given, sizing >>

\* mpq.go:366-368
AddFile == \E c \in AddFileCalls : addPending("AddFile", c[1], c[2], FALSE, FALSE, FALSE)

\* mpq.go:374-376
AddFileWithCRC ==
    \E c \in AddFileWithCRCCalls : addPending("AddFileWithCRC", c[1], c[2], TRUE, FALSE, FALSE)

\* mpq.go:405-427
AddPatchFile ==
    \E c \in AddPatchFileCalls : addPending("AddPatchFile", c[1], c[2], FALSE, TRUE, FALSE)

\* mpq.go:431-446
AddDeleteMarker ==
    \E p \in AddDeleteMarkerCalls : addPending("AddDeleteMarker", p, << >>, FALSE, FALSE, TRUE)

\* mpq.go:451-467
RemoveFile ==
    /\ MayChange
    /\ \E p \in Paths :
          LET mpqPath == SlashToBackslash(p)
          IN IF arc.mode # "m"
             THEN /\ Returns(Result("RemoveFile", p, "archive not opened for modification"))
                  /\ UNCHANGED << arc, log >>
             ELSE IF ~HasFile(arc, mpqPath)
             THEN /\ Returns(Result("RemoveFile", p, "file not found in archive"))
                  /\ UNCHANGED << arc, log >>
             ELSE /\ arc' = [arc EXCEPT !.removedFiles = @ \cup {mpqPath}]
                  /\ log' = Append(log, [op |-> "RemoveFile", mpqPath |-> p,
                                         pf |-> PendingFile(mpqPath, << >>, FALSE, FALSE, FALSE)])
                  /\ Returns(Result("RemoveFile", p, ""))
    /\ UNCHANGED << disk, pc, written, before, chain, given, sizing >>

\* mpq.go:472-590 ; every call names a fresh destination
DoExtractFile ==
    /\ MayCall
    /\ \E p \in Paths :
          \E r \in {ExtractFile(arc, p)} :
             /\ result' = Result("ExtractFile", p, r.err)
             /\ dest' = IF r.err = "" THEN FileOf(r.val) ELSE NoFile
    /\ UNCHANGED << disk, arc, pc, written, log, before, chain, given, sizing >>

\* mpq.go:773-809
DoListFiles ==
    /\ MayCall
    /\ \E r \in {ListFiles(arc)} :
          Returns([Result("ListFiles", << >>, r.err) EXCEPT !.files = r.val])
    /\ UNCHANGED << disk, arc, pc, written, log, before, chain, given, sizing >>

\* mpq.go:814-831
DoHasFile ==
    /\ MayCall
    /\ \E p \in Paths :
          Returns([Result("HasFile", p, "") EXCEPT !.has = HasFile(arc, p)])
    /\ UNCHANGED << disk, arc, pc, written, log, before, chain, given, sizing >>

(***************************************************************************)
(* mpq.go:863-905 Close, one action per step that the file system can see  *)
(***************************************************************************)
\* what Close leaves behind when it returns; a Close that went as far as
\* touching the archive path enters the history
Closed(err, saved) ==
    /\ arc' = NoHandle
    /\ pc' = "idle"
    /\ Returns(Result("Close", << >>, err))
    /\ written' = IF pc # "closing"
                  THEN Append(written, [mode |-> arc.mode, calls |-> log, saved |-> saved])
                  ELSE written
    /\ log' = << >>
    /\ before' = NoFile

\* Close of a handle from Open (mpq.go:864-869)
CloseRead ==
    /\ MayCall /\ arc.mode = "r"
    /\ arc' = NoHandle
    /\ Returns(Result("Close", << >>, ""))
    /\ UNCHANGED << disk, pc, written, log, before, chain, given, sizing >>

\* Close of a handle from Create or OpenForModify is entered (mpq.go:863)
CloseBegin ==
    /\ MayCall /\ arc.mode \in {"w", "m"}
    /\ pc' = "closing"
    /\ Returns(Result("Close", << >>, "pending"))
    /\ before' = disk.target
    /\ UNCHANGED << disk, arc, written, log, chain, given, sizing >>

\* CloseSerialize without the removal of the temp file on failure: what C7
\* must tell from it
CloseSerializeKeepsTemp ==
    /\ pc = "closing"
    /\ \E built \in IF arc.mode = "m" THEN buildModifiedFileList(arc)
                    ELSE {[err |-> "", a |-> arc]} :
          \E w \in {IF built.err # "" THEN built ELSE writeArchive(built.a)} :
             IF w.err # ""
             THEN /\ disk' = disk
                  /\ Closed(w.err, FALSE)
             ELSE /\ disk' = [disk EXCEPT !.temp = w.file]
                  /\ arc' = w.a
                  /\ pc' = "serialized"
                  /\ UNCHANGED << result, dest, written, log, before >>
    /\ UNCHANGED << chain, given, sizing >>

\* buildModifiedFileList and writeArchive: the temp file is written, or
\* removed when either fails (mpq.go:871-892)
CloseSerialize ==
    /\ pc = "closing"
    /\ \E built \in IF arc.mode = "m" THEN buildModifiedFileList(arc)
                    ELSE {[err |-> "", a |-> arc]} :
          \E w \in {IF built.err # "" THEN built ELSE writeArchive(built.a)} :
             IF w.err # ""
             THEN /\ disk' = [disk EXCEPT !.temp = NoFile]
                  /\ Closed(w.err, FALSE)
             ELSE /\ disk' = [disk EXCEPT !.temp = w.file]
                  /\ arc' = w.a
                  /\ pc' = "serialized"
                  /\ UNCHANGED << result, dest, written, log, before >>
    /\ UNCHANGED << chain, given, sizing >>

\* os.Remove(a.path) (mpq.go:895)
CloseRemoveTarget ==
    /\ pc = "serialized"
    /\ disk' = [disk EXCEPT !.target = NoFile]
    /\ pc' = "removed"
    /\ UNCHANGED << arc, result, dest, written, log, before, chain, given, sizing >>

\* os.Rename(a.tempPath, a.path) succeeds (mpq.go:896)
CloseRename ==
    /\ pc = "removed"
    /\ disk' = [target |-> disk.temp, temp |-> NoFile]
    /\ Closed("", TRUE)
    /\ UNCHANGED << chain, given, sizing >>

\* os.Rename fails, copyFile opens the temp file (mpq.go:896-897, 1104-1108)
CloseRenameFails ==
    /\ pc = "removed"
    /\ pc' = "copying"
    /\ UNCHANGED << disk, arc, result, dest, written, log, before, chain, given, sizing >>

\* copyFile: os.Create(dst) (mpq.go:1110)
CopyCreate ==
    /\ pc = "copying"
    /\ disk' = [disk EXCEPT !.target = Truncated]
    /\ pc' = "created"
    /\ UNCHANGED << arc, result, dest, written, log, before, chain, given, sizing >>

\* copyFile: os.Create(dst) fails (mpq.go:1110-1113, 898-899)
CopyCreateFails ==
    /\ pc = "copying"
    /\ disk' = [disk EXCEPT !.temp = NoFile]
    /\ Closed("save archive", FALSE)
    /\ UNCHANGED << chain, given, sizing >>

\* copyFile: io.Copy (mpq.go:1116)
CopyData ==
    /\ pc = "created"
    /\ disk' = [disk EXCEPT !.target = disk.temp]
    /\ pc' = "copied"
    /\ UNCHANGED << arc, result, dest, written, log, before, chain, given, sizing >>

\* copyFile: io.Copy fails part way (mpq.go:1116-1117, 898-899)
CopyDataFails ==
    /\ pc = "created"
    /\ disk' = [disk EXCEPT !.temp = NoFile]
    /\ Closed("save archive", FALSE)
    /\ UNCHANGED << chain, given, sizing >>

\* os.Remove(a.tempPath) after the copy (mpq.go:901)
CloseRemoveTemp ==
    /\ pc = "copied"
    /\ disk' = [disk EXCEPT !.temp = NoFile]
    /\ Closed("", TRUE)
    /\ UNCHANGED << chain, given, sizing >>

Next ==
    \/ Create
    \/ CreateV2
    \/ Open
    \/ OpenForModify
    \/ AddFile
    \/ AddFileWithCRC
    \/ AddPatchFile
    \/ AddDeleteMarker
    \/ RemoveFile
    \/ DoExtractFile
    \/ DoListFiles
    \/ DoHasFile
    \/ CloseRead
    \/ CloseBegin
    \/ CloseSerialize
    \/ CloseRemoveTarget
    \/ CloseRename
    \/ CloseRenameFails
    \/ CopyCreate
    \/ CopyCreateFails
    \/ CopyData
    \/ CopyDataFails
    \/ CloseRemoveTemp

Spec == Init /\ [][Next]_vars

(***************************************************************************)
(* Properties of the archive specification                                 *)
(***************************************************************************)
\* the name a path is stored and looked up by
Normalized(path) == ToUpper(SlashToBackslash(path))

\* the calls that add a file with content
AddOps == {"AddFile", "AddFileWithCRC", "AddPatchFile"}

\* the handle in use comes from Open, on the archive that n handles from
\* Create and OpenForModify have written and saved, one after the other
Reopened(n) ==
    /\ arc.mode = "r" /\ pc = "idle"
    /\ Len(written) = n
    /\ \A k \in 1..n : written[k].saved

\* the successful calls of the k-th writing handle under the name of path
CallsOn(k, path) ==
    {j \in 1..Len(written[k].calls) :
        Normalized(written[k].calls[j].mpqPath) = Normalized(path)}

\* C1: a file added once on a handle from Create, by AddFile, AddFileWithCRC
\* or AddPatchFile, is extracted after Close and Open without error and with
\* exactly the bytes that were added
C1_RoundTrip ==
    (Reopened(1) /\ result.op = "ExtractFile") =>
        \A j \in 1..Len(written[1].calls) :
            LET c == written[1].calls[j]
            IN (c.op \in AddOps /\ c.mpqPath = result.path /\ CallsOn(1, c.mpqPath) = {j})
               => (result.err = "" /\ dest = FileOf(c.pf.data))

\* C4: a file added on a handle from OpenForModify under the name of an
\* existing file, slash direction and letter case ignored, is what its path
\* extracts to after Close and Open
C4_ReplacedByName ==
    (Reopened(2) /\ result.op = "ExtractFile") =>
        \A j \in 1..Len(written[2].calls) :
            LET c == written[2].calls[j]
            IN (/\ c.op \in AddOps /\ c.mpqPath = result.path
                /\ CallsOn(2, c.mpqPath) = {j}
                /\ \E i \in CallsOn(1, c.mpqPath) :
                      /\ CallsOn(1, c.mpqPath) = {i}
                      /\ written[1].calls[i].op \in AddOps)
               => (result.err = "" /\ dest = FileOf(c.pf.data))

\* C5: a path that RemoveFile took without error on a handle from
\* OpenForModify, and that nothing was added under afterwards, is not in the
\* archive after Close and Open
C5_Removed ==
    (Reopened(2) /\ result.op = "HasFile") =>
        \A j \in 1..Len(written[2].calls) :
            LET c == written[2].calls[j]
            IN (/\ c.op = "RemoveFile" /\ c.mpqPath = result.path
                /\ \A i \in CallsOn(2, c.mpqPath) : i <= j)
               => ~result.has

\* C6: a file of the archive that a handle from OpenForModify made no call
\* about extracts, after Close and Open, to the bytes it was added with and
\* has the PATCH_FILE, DELETE_MARKER and SECTOR_CRC flags it was added with
C6_Untouched ==
    (Reopened(2) /\ result.op = "ExtractFile") =>
        \A j \in 1..Len(written[1].calls) :
            LET c == written[1].calls[j]
            IN (/\ c.op \in AddOps /\ c.mpqPath = result.path
                /\ CallsOn(1, c.mpqPath) = {j}
                /\ CallsOn(2, c.mpqPath) = {})
               => /\ result.err = "" /\ dest = FileOf(c.pf.data)
                  /\ flagAt(arc, findFile(arc, c.mpqPath), filePatchFile, c.pf.isPatchFile)
                  /\ flagAt(arc, findFile(arc, c.mpqPath), fileSectorCRC, c.pf.generateCRC)
                  /\ flagAt(arc, findFile(arc, c.mpqPath), fileDeleteMarker, FALSE)

C8_AtomicReplacement ==
    (pc # "idle" /\ before.exists) =>
        \/ disk.target = before
        \/ disk.target.exists /\ disk.target.complete /\ disk.target = disk.temp

\* C9: a call the mode of the handle does not allow returns its state error
\* and leaves the handle, with its pending queue, removal set and tables, as
\* it was
C9_ModeGating ==
    [][(pc = "idle" /\ pc' = "idle") =>
          /\ (arc.mode = "r" /\ result'.op \in AddOps \cup {"AddDeleteMarker"})
                => (/\ result'.err = "archive not opened for writing or modification"
                    /\ arc' = arc)
          /\ (arc.mode \in {"r", "w"} /\ result'.op = "RemoveFile")
                => (/\ result'.err = "archive not opened for modification"
                    /\ arc' = arc)
          /\ (arc.mode = "w" /\ result'.op \in {"ExtractFile", "ListFiles"})
                => (/\ result'.err = "archive not opened for reading"
                    /\ arc' = arc /\ dest' = NoFile)]_vars

\* an adding call has been refused on a handle from Open
C9_Witness ==
    /\ arc.mode = "r" /\ pc = "idle"
    /\ result.op \in AddOps \cup {"AddDeleteMarker"}
    /\ result.err = "archive not opened for writing or modification"
    /\ Len(arc.pendingFiles) = 0

\* the paths a lookup may be made with
LookupPaths == Paths \cup {PathBackslash}

\* the paths that equal path after '/' is replaced by '\' and ASCII letters
\* are upper-cased
SameName(path) == {q \in LookupPaths : Normalized(q) = Normalized(path)}

\* the hash types: the sections of cryptTable
HashTypes == 0..4

\* C11: on an archive in read mode or in create mode, HasFile and ExtractFile
\* return for a path what they return for every path equal to it after slash
\* replacement and ASCII upper-casing, and hashString gives both paths the
\* same value under every hash type
C11_LookupInsensitive ==
    [][(pc = "idle" /\ pc' = "idle" /\ arc.mode \in {"r", "w"}) =>
          /\ result'.op = "HasFile" =>
                \A q \in SameName(result'.path) :
                    /\ HasFile(arc, q) = result'.has
                    /\ \A t \in HashTypes : hashString(q, t) = hashString(result'.path, t)
          /\ result'.op = "ExtractFile" =>
                \A q \in SameName(result'.path) :
                    /\ ExtractFile(arc, q).err = result'.err
                    /\ result'.err = "" => dest' = FileOf(ExtractFile(arc, q).val)
                    /\ \A t \in HashTypes : hashString(q, t) = hashString(result'.path, t)]_vars

\* "a" is extracted from a reopened archive to which only "A" was added
C11_Witness ==
    /\ Reopened(1)
    /\ result.op = "ExtractFile" /\ result.path = PathLowerA /\ result.err = ""
    /\ \A j \in 1..Len(written[1].calls) : written[1].calls[j].mpqPath = PathUpperA
    /\ Len(written[1].calls) = 1

\* the one archive written so far was created, given no file and closed
EmptyWritten ==
    /\ Len(written) = 1 /\ written[1].saved
    /\ written[1].mode = "w" /\ written[1].calls = << >>
    /\ pc = "idle"

\* C13: an archive created with no files and closed opens without error, and
\* on the opened archive HasFile is false for every name and ListFiles
\* returns an empty list without error
C13_EmptyArchive ==
    EmptyWritten =>
        /\ result.op = "Open" => result.err = ""
        /\ (arc.mode = "r" /\ result.op = "HasFile") => ~result.has
        /\ (arc.mode = "r" /\ result.op = "ListFiles") =>
              (result.err = "" /\ result.files = << >>)

\* the bytes of block b in the temp file as written
StoredBytes(b) ==
    SubSeq(disk.temp.data, b.FilePos - arc.header.HeaderSize + 1,
           b.FilePos - arc.header.HeaderSize + b.CompressedSize)

\* the content of the block found under name in the archive just written
PayloadOf(name) ==
    decodeBlock(arc, name, arc.blockTable[findFile(arc, name) + 1],
                StoredBytes(arc.blockTable[findFile(arc, name) + 1])).val

\* the CRC32 words of the pending files, in their order
PendingCRCs ==
    LET e(i) == LE32(crc32(arc.pendingFiles[i].data))
    IN ConcatMap(e, 1, Len(arc.pendingFiles))

\* C23: an archive written with n >= 1 pending entries has n + 2 blocks, and
\* its (attributes) is version 100, flags 1, the CRC32 of each pending file's
\* data in order, the CRC32 of the (listfile) content, and zero for itself
C23_AttributesLayout ==
    (pc = "serialized" /\ Len(arc.pendingFiles) >= 1) =>
        /\ Len(arc.blockTable) = Len(arc.pendingFiles) + 2
        /\ findFile(arc, LISTFILE) >= 0
        /\ findFile(arc, ATTRIBUTES) >= 0
        /\ PayloadOf(ATTRIBUTES) =
              LE32(U32(100)) \o LE32(U32(1)) \o PendingCRCs
              \o LE32(crc32(PayloadOf(LISTFILE))) \o LE32(U32(0))

C23_Witness ==
    /\ pc = "serialized"
    /\ arc.mode = "m"
    /\ Len(arc.pendingFiles) >= 2
    /\ \E i \in 1..Len(arc.pendingFiles) : arc.pendingFiles[i].isDeleteMarker
    /\ \E i \in 1..Len(arc.pendingFiles) : Len(arc.pendingFiles[i].data) > 2 * arc.sectorSize
    /\ findFile(arc, ATTRIBUTES) = Len(arc.pendingFiles) + 1

\* Close of a handle from OpenForModify gets through buildModifiedFileList
\* and writeArchive
ModifyCloseWrites ==
    (pc = "closing" /\ arc.mode = "m" /\ pc' # "closing") => pc' = "serialized"

\* the files added on the handle from OpenForModify are in the archive
AddedArePresent ==
    (Reopened(2) /\ written[2].mode = "m" /\ result.op = "HasFile") =>
        \A j \in 1..Len(written[2].calls) :
            LET c == written[2].calls[j]
            IN (/\ c.op \in AddOps
                /\ Normalized(c.mpqPath) = Normalized(result.path)
                /\ \A i \in CallsOn(2, c.mpqPath) : i <= j)
               => result.has

\* C29: on every archive written by Create and Close, the empty one too,
\* OpenForModify, additions and Close return no error from rebuilding and
\* writing the archive, and the added files are present after reopening
C29_ModifyAlwaysWorks ==
    [][ModifyCloseWrites]_vars /\ []AddedArePresent

\* the stored bytes of the block found under path in the opened archive
StoredUnder(path) == readBlock(arc, arc.blockTable[findFile(arc, path) + 1]).val

\* C20: for a single-unit file written with a CRC, the 4 trailing bytes are
\* the Adler-32 of the stored bytes before them, compressed or raw, and the
\* reader's check of them passes when the unmodified file is extracted
C20_ChecksumAgreement ==
    (Reopened(1) /\ result.op = "ExtractFile") =>
        \A j \in 1..Len(written[1].calls) :
            LET c == written[1].calls[j]
            IN (/\ c.op = "AddFileWithCRC"
                /\ c.mpqPath = result.path
                /\ CallsOn(1, c.mpqPath) = {j}
                /\ Len(c.pf.data) <= 2 * arc.sectorSize) =>
                   /\ flagAt(arc, findFile(arc, c.mpqPath), fileSingleUnit, TRUE)
                   /\ flagAt(arc, findFile(arc, c.mpqPath), fileSectorCRC, TRUE)
                   /\ Len(StoredUnder(c.mpqPath)) >= 4
                   /\ Word32At(StoredUnder(c.mpqPath), Len(StoredUnder(c.mpqPath)) - 4)
                         = adler32(Take(StoredUnder(c.mpqPath),
                                        Len(StoredUnder(c.mpqPath)) - 4))
                   /\ result.err # "sector CRC mismatch"

(***************************************************************************)
(* The storing specification: one file of every length up to the bound is  *)
(* added to a new archive, which is then written                           *)
(***************************************************************************)
\* the payloads stored: a run of zeros, which compresses, and a ramp, which
\* does not
StoreLengths == 0..(2 * (2 ^ SectorShift) + MaxBeyond)
Ramp(n) == [i \in 1..n |-> i]
StorePayloads == {Rep(0, n) : n \in StoreLengths} \cup {Ramp(n) : n \in StoreLengths}

\* AddFile, AddFileWithCRC or AddPatchFile of one payload, on an empty queue
StoreFile ==
    /\ arc.mode = "w" /\ Len(arc.pendingFiles) = 0
    /\ \E data \in StorePayloads :
          \/ addPending("AddFile", PathLowerA, data, FALSE, FALSE, FALSE)
          \/ addPending("AddFileWithCRC", PathLowerA, data, TRUE, FALSE, FALSE)
          \/ addPending("AddPatchFile", PathLowerA, data, FALSE, TRUE, FALSE)

NextStore ==
    \/ Create
    \/ CreateV2
    \/ StoreFile
    \/ CloseBegin
    \/ CloseSerialize

SpecStore == Init /\ [][NextStore]_vars

\* the stored bytes begin with an offset table of n + 1 words: the first
\* points past the tables and the last is the length of the stored bytes
HasOffsetTable(stored, n, useCRC) ==
    /\ Len(stored) >= 4 * (n + 1)
    /\ Word32At(stored, 0) = U32(4 * (n + 1) + (IF useCRC THEN 4 * n ELSE 0))
    /\ Word32At(stored, 4 * n) = U32(Len(stored))

\* the stored bytes are the payload itself or its compressed form, followed
\* by 4 checksum bytes when those were requested
IsOneUnit(stored, data, useCRC) ==
    LET unit == IF useCRC THEN Take(stored, Len(stored) - 4) ELSE stored
    IN /\ useCRC => Len(stored) >= 4
       /\ unit = data \/ unit = compressData(data)

\* C12: a file written with length L has SINGLE_UNIT and no sector offset
\* table exactly when L <= 2 * sectorSize; a longer file is stored behind an
\* offset table with the flags EXISTS | COMPRESS, SECTOR_CRC when a CRC was
\* requested and PATCH_FILE when added as a patch file, and no SINGLE_UNIT
C12_SingleUnitBoundary ==
    pc = "serialized" =>
        \A i \in 1..Len(arc.pendingFiles) :
            LET pf == arc.pendingFiles[i]
                b == arc.blockTable[findFile(arc, pf.mpqPath) + 1]
                L == Len(pf.data)
                n == NumSectors(L, arc.sectorSize)
            IN ~pf.isDeleteMarker =>
                  /\ findFile(arc, pf.mpqPath) >= 0
                  /\ b.FileSize = L
                  /\ HasFlag(b.Flags, fileSingleUnit) <=> L <= 2 * arc.sectorSize
                  /\ L <= 2 * arc.sectorSize =>
                        IsOneUnit(StoredBytes(b), pf.data, pf.generateCRC)
                  /\ L > 2 * arc.sectorSize =>
                        /\ HasOffsetTable(StoredBytes(b), n, pf.generateCRC)
                        /\ b.Flags = OrIf(OrIf(Or32(fileExists, fileCompress),
                                               pf.generateCRC, fileSectorCRC),
                                          pf.isPatchFile, filePatchFile)

\* a file of two sectors and one byte was written with a CRC, and sectored
C12_Witness ==
    /\ pc = "serialized"
    /\ Len(arc.pendingFiles) = 1
    /\ Len(arc.pendingFiles[1].data) = 2 * arc.sectorSize + 1
    /\ arc.pendingFiles[1].generateCRC
    /\ ~HasFlag(arc.blockTable[1].Flags, fileSingleUnit)
    /\ HasFlag(arc.blockTable[1].Flags, fileSectorCRC)

(***************************************************************************)
(* The table specification: up to MaxNames files with distinct names are   *)
(* added to a new archive, which is then written                           *)
(***************************************************************************)
\* the names: b, c, d, ... ; one more than the archive takes
TableNames == [k \in 1..(MaxNames + 1) |-> << 97 + k >>]

\* the place of a name among the names, 0 for a name of the archive itself
NameIndex(name) ==
    IF \E k \in 1..Len(TableNames) : TableNames[k] = name
    THEN CHOOSE k \in 1..Len(TableNames) : TableNames[k] = name
    ELSE 0

\* AddFile of the next name, or of the one after it: the names are added in
\* their order and at most one is left out
AddNamed ==
    /\ arc.mode = "w" /\ pc = "idle"
    /\ Len(arc.pendingFiles) < MaxNames
    /\ \E k \in {Len(arc.pendingFiles) + 1, Len(arc.pendingFiles) + 2} :
          /\ k <= Len(TableNames)
          /\ \A i \in 1..Len(arc.pendingFiles) : NameIndex(arc.pendingFiles[i].mpqPath) < k
          /\ LET pf == PendingFile(TableNames[k], << k >>, FALSE, FALSE, FALSE)
             IN /\ arc' = [arc EXCEPT !.pendingFiles = Append(@, pf)]
                /\ log' = Append(log, [op |-> "AddFile", mpqPath |-> TableNames[k], pf |-> pf])
                /\ Returns(Result("AddFile", TableNames[k], ""))
    /\ UNCHANGED << disk, pc, written, before, chain, given, sizing >>

NextTable ==
    \/ Create
    \/ AddNamed
    \/ CloseBegin
    \/ CloseSerialize

SpecTable == Init /\ [][NextTable]_vars

\* the names inserted by writeArchive: the pending files' and, after them,
\* (listfile) and (attributes)
Inserted ==
    [i \in 1..Len(arc.pendingFiles) |-> arc.pendingFiles[i].mpqPath]
    \o (IF Len(arc.pendingFiles) > 0 THEN << LISTFILE, ATTRIBUTES >> ELSE << >>)

\* the inserted names differ pairwise in (hashA, hashB)
DistinctHashes(names) ==
    \A i, j \in 1..Len(names) :
        i # j => << hashString(names[i], hashTypeNameA), hashString(names[i], hashTypeNameB) >>
                 # << hashString(names[j], hashTypeNameA), hashString(names[j], hashTypeNameB) >>

\* C17: after writeArchive has inserted k <= P names with pairwise distinct
\* (hashA, hashB) into the reset table of size P, findFile returns for each
\* inserted name the block index assigned to it, and not-found for every name
\* that was not inserted, also when no slot of the table is EMPTY
C17_InsertThenLookup ==
    (/\ pc = "serialized"
     /\ Len(Inserted) <= arc.header.HashTableSize
     /\ DistinctHashes(Inserted)) =>
        /\ Len(arc.blockTable) = Len(Inserted)
        /\ \A i \in 1..Len(Inserted) : findFile(arc, Inserted[i]) = i - 1
        /\ \A k \in 1..Len(TableNames) :
              (\A i \in 1..Len(Inserted) : Inserted[i] # TableNames[k])
                 => findFile(arc, TableNames[k]) = -1

\* the written table has no EMPTY slot, and one name was not inserted
C17_Witness ==
    /\ pc = "serialized"
    /\ Len(Inserted) = arc.header.HashTableSize
    /\ \A s \in 1..Len(arc.hashTable) : arc.hashTable[s].BlockIndex # hashTableEmpty
    /\ \E k \in 1..Len(TableNames) :
          /\ \A i \in 1..Len(Inserted) : Inserted[i] # TableNames[k]
          /\ findFile(arc, TableNames[k]) = -1

(***************************************************************************)
(* The lookup specification: an archive of another writer is opened, and   *)
(* names are looked up in its hash table                                   *)
(***************************************************************************)
\* the names looked up: a, b
LookupNames == {<< 97 >>, << 98 >>}

\* a hash table slot that refers name to block blockIndex
SlotFor(name, blockIndex) ==
    [HashA |-> hashString(name, hashTypeNameA), HashB |-> hashString(name, hashTypeNameB),
     Locale |-> localeNeutral, Platform |-> 0, BlockIndex |-> U32(blockIndex)]

\* what a slot may hold: EMPTY, DELETED, a reference for "a" to a block
\* with or without EXISTS or past the end of the block table, one for "b"
SlotChoices ==
    {emptyHashEntry, [emptyHashEntry EXCEPT !.BlockIndex = hashTableDeleted],
     SlotFor(<< 97 >>, 0), SlotFor(<< 97 >>, 1), SlotFor(<< 97 >>, 2), SlotFor(<< 98 >>, 0)}

\* the block tables: two blocks without data, each with or without EXISTS
BlockChoices ==
    {[FilePos |-> headerSizeV1, CompressedSize |-> 0, FileSize |-> 0, Flags |-> f] :
        f \in {fileExists, fileSingleUnit}}

\* the archive file that holds the given tables
FileWith(hashTable, blockTable) ==
    [exists |-> TRUE, complete |-> TRUE,
     header |-> [HeaderSize |-> headerSizeV1, FormatVersion |-> formatVersion1,
                 SectorSizeShift |-> SectorShift,
                 HashTableOffset |-> headerSizeV1,
                 BlockTableOffset |-> headerSizeV1 + 16 * Len(hashTable),
                 HashTableSize |-> Len(hashTable), BlockTableSize |-> Len(blockTable)],
     data |-> << >>,
     hashTableData |-> encryptBlock(hashTableWords(hashTable), hashTableCryptKey),
     blockTableData |-> encryptBlock(blockTableWords(blockTable), blockTableCryptKey)]

LookupFiles ==
    {FileWith(h, b) : h \in [1..LookupSlots -> SlotChoices], b \in [1..2 -> BlockChoices]}

\* Open has returned a handle on one of the files
InitLookup ==
    /\ \E file \in LookupFiles :
          /\ disk = [target |-> file, temp |-> NoFile]
          /\ arc = loadArchive(file, "r").val
    /\ pc = "idle"
    /\ result = Result("Open", << >>, "")
    /\ dest = NoFile
    /\ written = << >>
    /\ log = << >>
    /\ before = NoFile
    /\ chain = NoChain
    /\ given = << >>
    /\ sizing = [maxFiles |-> 0, a |-> NoHandle]

\* mpq.go:1057-1086
DoFindFile ==
    /\ MayCall
    /\ \E name \in LookupNames :
          Returns([Result("findFile", name, "") EXCEPT !.block = findFile(arc, name)])
    /\ UNCHANGED << disk, arc, pc, written, log, before, chain, given, sizing >>

NextLookup == DoFindFile

SpecLookup == InitLookup /\ [][NextLookup]_vars

\* the slot probed at step i of the scan for name
ProbedSlot(name, i) ==
    arc.hashTable[((Mod32(hashString(name, hashTypeTableOffset), arc.header.HashTableSize)
                    + i) % arc.header.HashTableSize) + 1]

\* the steps of the scan made before the first EMPTY slot
ProbedSteps(name) ==
    {i \in 0..(arc.header.HashTableSize - 1) :
        \A j \in 0..i : ProbedSlot(name, j).BlockIndex # hashTableEmpty}

\* the steps at which the scan may return: the slot is not DELETED, its
\* (hashA, hashB) are the name's, its block index lies inside the block table
\* and that block has EXISTS
ReturningSteps(name) ==
    {i \in ProbedSteps(name) :
        /\ ProbedSlot(name, i).BlockIndex # hashTableDeleted
        /\ ProbedSlot(name, i).HashA = hashString(name, hashTypeNameA)
        /\ ProbedSlot(name, i).HashB = hashString(name, hashTypeNameB)
        /\ Nat32(ProbedSlot(name, i).BlockIndex) < Len(arc.blockTable)
        /\ HasFlag(arc.blockTable[Nat32(ProbedSlot(name, i).BlockIndex) + 1].Flags,
                   fileExists)}

\* C18: on any hash table, findFile returns the block of the first slot from
\* hash(n, OFFSET) mod size, before any EMPTY slot and DELETED slots passed
\* over, whose (hashA, hashB) match and whose block index lies inside the
\* block table at a block with EXISTS; it returns not-found when there is no
\* such slot, and never a block without EXISTS or outside the block table
C18_LookupSemantics ==
    result.op = "findFile" =>
        /\ ReturningSteps(result.path) = {} => result.block = -1
        /\ ReturningSteps(result.path) # {} =>
              \E i \in ReturningSteps(result.path) :
                  /\ \A j \in ReturningSteps(result.path) : i <= j
                  /\ result.block = Nat32(ProbedSlot(result.path, i).BlockIndex)
        /\ result.block >= 0 =>
              /\ result.block < Len(arc.blockTable)
              /\ HasFlag(arc.blockTable[result.block + 1].Flags, fileExists)

\* the scan passed over a DELETED slot and over a matching slot whose block
\* lacks EXISTS, and returned a block further on
C18_Witness ==
    /\ result.op = "findFile" /\ result.block >= 0
    /\ \E i, j \in ProbedSteps(result.path) :
          /\ ProbedSlot(result.path, i).BlockIndex = hashTableDeleted
          /\ ProbedSlot(result.path, j).HashA = hashString(result.path, hashTypeNameA)
          /\ Nat32(ProbedSlot(result.path, j).BlockIndex) < Len(arc.blockTable)
          /\ ~HasFlag(arc.blockTable[Nat32(ProbedSlot(result.path, j).BlockIndex) + 1].Flags,
                      fileExists)
          /\ \A k \in ReturningSteps(result.path) : i < k /\ j < k

(***************************************************************************)
(* The ordering specification: files with distinct names are added to a    *)
(* new archive and, after OpenForModify, to the archive as written         *)
(***************************************************************************)
\* the names: b, c, d
OrderNames == {<< 98 >>, << 99 >>, << 100 >>}

\* the names added so far, on this handle or on an earlier one
AddedNames ==
    {log[i].mpqPath : i \in 1..Len(log)}
    \cup UNION {{written[k].calls[i].mpqPath : i \in 1..Len(written[k].calls)} :
                   k \in 1..Len(written)}

\* AddFile of a name that was not added before
AddInOrder ==
    /\ MayCall /\ arc.mode \in {"w", "m"}
    /\ \E name \in OrderNames \ AddedNames :
          LET pf == PendingFile(name, name, FALSE, FALSE, FALSE)
          IN /\ arc' = [arc EXCEPT !.pendingFiles = Append(@, pf)]
             /\ log' = Append(log, [op |-> "AddFile", mpqPath |-> name, pf |-> pf])
             /\ Returns(Result("AddFile", name, ""))
    /\ UNCHANGED << disk, pc, written, before, chain, given, sizing >>

NextOrder ==
    \/ Create
    \/ OpenForModify
    \/ AddInOrder
    \/ CloseBegin
    \/ CloseSerialize
    \/ CloseRemoveTarget
    \/ CloseRename

SpecOrder == Init /\ [][NextOrder]_vars

\* the files retained from the archive that was opened for modification
Retained == IF arc.mode = "m" THEN Len(written[1].calls) ELSE 0

\* C19: the files added on a handle get their block indices in the order in
\* which they were added, from 0 in create mode and after the retained files
\* in modify mode, and (listfile) and then (attributes) follow all of them
C19_WriteOrder ==
    (pc = "serialized" /\ Len(log) + Retained > 0) =>
        /\ \A i \in 1..Len(log) : findFile(arc, log[i].mpqPath) = Retained + i - 1
        /\ arc.mode = "m" =>
              \A i \in 1..Retained : findFile(arc, written[1].calls[i].mpqPath) < Retained
        /\ findFile(arc, LISTFILE) = Retained + Len(log)
        /\ findFile(arc, ATTRIBUTES) = Retained + Len(log) + 1

(***************************************************************************)
(* The damage specification: an archive written by this library with one   *)
(* sectored file and its CRC table is damaged on disk, opened and read     *)
(***************************************************************************)
\* the handle whose Close wrote the archive: d\b, sectored, with a CRC table
SoundHandle ==
    [newArchive(CHOOSE maxFiles \in CreateMaxFiles : TRUE, FormatV1)
        EXCEPT !.pendingFiles = << PendingFile(PathBackslash, Sectored, TRUE, FALSE, FALSE) >>]

SoundFile == writeArchive(SoundHandle).file

\* the stored bytes of the file come first in the archive
SoundStored == writeSectoredFile(Sectored, 2 ^ SectorShift, TRUE)

\* the values a damaged byte takes
DamageValues == {0, 255}

\* the damages: none; one stored byte of the file replaced; the stored length
\* in the block table one too large, which takes in the byte after the file
Damages ==
    {[kind |-> "none", at |-> 0, to |-> 0], [kind |-> "size", at |-> 0, to |-> 0]}
    \cup {[kind |-> "byte", at |-> p, to |-> v] :
             p \in 1..Len(SoundStored), v \in DamageValues}

\* the block table of the archive with the stored length of block 0 raised
LongerBlockTable ==
    [writeArchive(SoundHandle).a.blockTable EXCEPT ![1].CompressedSize = @ + 1]

DamagedFile(d) ==
    IF d.kind = "byte" THEN [SoundFile EXCEPT !.data[d.at] = d.to]
    ELSE IF d.kind = "size"
    THEN [SoundFile EXCEPT !.blockTableData =
             encryptBlock(blockTableWords(LongerBlockTable), blockTableCryptKey)]
    ELSE SoundFile

InitDamage ==
    /\ \E d \in Damages : disk = [target |-> DamagedFile(d), temp |-> NoFile]
    /\ arc = NoHandle
    /\ pc = "idle"
    /\ result = Result("", << >>, "")
    /\ dest = NoFile
    /\ written = << >>
    /\ log = << >>
    /\ before = NoFile
    /\ chain = NoChain
    /\ given = << >>
    /\ sizing = [maxFiles |-> 0, a |-> NoHandle]

NextDamage ==
    \/ Open
    \/ DoExtractFile
    \/ CloseRead

SpecDamage == InitDamage /\ [][NextDamage]_vars

\* the block found under path in the opened archive
BlockUnder(path) == arc.blockTable[findFile(arc, path) + 1]

\* a sectored file with a CRC table was asked for
SectoredRead ==
    /\ arc.mode = "r" /\ result.op = "ExtractFile"
    /\ findFile(arc, result.path) >= 0
    /\ HasFlag(BlockUnder(result.path).Flags, fileCompress)
    /\ HasFlag(BlockUnder(result.path).Flags, fileSectorCRC)
    /\ ~HasFlag(BlockUnder(result.path).Flags, fileSingleUnit)
    /\ ~HasFlag(BlockUnder(result.path).Flags, fileEncrypted)
    /\ readBlock(arc, BlockUnder(result.path)).err = ""
    /\ Len(StoredUnder(result.path))
          >= 8 * NumSectors(BlockUnder(result.path).FileSize, arc.sectorSize) + 4

\* entry k (from 0) of the sector offset table of the stored bytes
OffsetAt(stored, k) == Nat32(Word32At(stored, 4 * k))

\* sector i (from 0) lies inside the stored bytes and decodes to bytes whose
\* Adler-32 is not entry i of the CRC table, which follows the offset table
SectorMismatch(stored, block, i) ==
    /\ OffsetAt(stored, i) <= OffsetAt(stored, i + 1)
    /\ OffsetAt(stored, i + 1) <= Len(stored)
    /\ \E decoded \in {decodeSector(SubSeq(stored, OffsetAt(stored, i) + 1,
                                           OffsetAt(stored, i + 1)),
                                    block, expectedSectorSize(block, arc.sectorSize, i))} :
          /\ decoded.err = ""
          /\ adler32(decoded.val)
                # Word32At(stored, 4 * (NumSectors(block.FileSize, arc.sectorSize) + 1 + i))

\* C21: extracting a sectored file with SECTOR_CRC fails when the decoded
\* bytes of some sector do not match the sector's entry in the CRC table
C21_SectorChecksum ==
    (/\ SectoredRead
     /\ \E i \in 0..(NumSectors(BlockUnder(result.path).FileSize, arc.sectorSize) - 1) :
           SectorMismatch(StoredUnder(result.path), BlockUnder(result.path), i))
        => result.err # ""

\* C22: reading a sectored file fails when its offset table decreases
\* somewhere, holds an offset beyond the stored length, or ends with an
\* offset that is not the stored length
C22_OffsetIntegrity ==
    SectoredRead =>
        LET stored == StoredUnder(result.path)
            n == NumSectors(BlockUnder(result.path).FileSize, arc.sectorSize)
        IN (\/ \E k \in 0..(n - 1) : OffsetAt(stored, k) > OffsetAt(stored, k + 1)
            \/ \E k \in 0..n : OffsetAt(stored, k) > Len(stored)
            \/ OffsetAt(stored, n) # Len(stored))
              => result.err # ""

(***************************************************************************)
(* The unit specification: decompressData is applied to one compressed     *)
(* unit, a mask byte followed by a body                                    *)
(***************************************************************************)
MaskBytes == 0..255

\* the bodies: none, one raw byte, a compressed run, raw bytes
UnitBodies == {Empty, << 7 >>, Deflate(Zeros), Sectored}

UnitInputs == {<< m >> \o body : m \in MaskBytes, body \in UnitBodies}

InitUnit ==
    /\ \E data \in UnitInputs : given = [data |-> data, uncompressedSize |-> Len(Zeros)]
    /\ result = [op |-> "", err |-> "", val |-> << >>]
    /\ disk = [target |-> NoFile, temp |-> NoFile]
    /\ arc = NoHandle
    /\ pc = "idle"
    /\ dest = NoFile
    /\ written = << >>
    /\ log = << >>
    /\ before = NoFile
    /\ chain = NoChain
    /\ sizing = [maxFiles |-> 0, a |-> NoHandle]

\* decompressData(data, uncompressedSize)
DoDecompressData ==
    /\ result.op = ""
    /\ \E r \in {decompressData(given.data, given.uncompressedSize)} :
          result' = [op |-> "decompressData", err |-> r.err, val |-> r.val]
    /\ UNCHANGED << disk, arc, pc, dest, written, log, before, chain, given, sizing >>

NextUnit == DoDecompressData

SpecUnit == InitUnit /\ [][NextUnit]_vars

\* the mask byte names Huffman, Sparse or ADPCM, or is the LZMA byte
UnsupportedMask(m) ==
    \/ hasType(m, compressionHuffman)
    \/ hasType(m, compressionSparse)
    \/ hasType(m, compressionADPCMMono)
    \/ hasType(m, compressionADPCM)
    \/ m = compressionLZMA

\* C24: decompressData returns an error for every non-empty unit whose mask
\* byte includes Huffman, Sparse or ADPCM or is the LZMA byte
C24_UnsupportedMasks ==
    (result.op = "decompressData" /\ UnsupportedMask(given.data[1])) => result.err # ""

(***************************************************************************)
(* The cipher specification: a block of words is encrypted and the result  *)
(* decrypted under the same key                                            *)
(***************************************************************************)
WordValues == {<< 0, 0 >>, << 0, 1 >>, << 32768, 0 >>, << 65535, 65535 >>}

WordBlocks == UNION {[1..n -> WordValues] : n \in 0..MaxWords}

CipherKeys == {<< 0, 0 >>, << 4660, 22136 >>, << 65535, 65535 >>,
               blockTableCryptKey}

InitCipher ==
    /\ \E data \in WordBlocks, key \in CipherKeys : given = [data |-> data, key |-> key]
    /\ result = [op |-> "", data |-> << >>, from |-> << >>]
    /\ disk = [target |-> NoFile, temp |-> NoFile]
    /\ arc = NoHandle
    /\ pc = "idle"
    /\ dest = NoFile
    /\ written = << >>
    /\ log = << >>
    /\ before = NoFile
    /\ chain = NoChain
    /\ sizing = [maxFiles |-> 0, a |-> NoHandle]

\* encryptBlock(data, key)
DoEncryptBlock ==
    /\ result.op = ""
    /\ result' = [op |-> "encryptBlock", data |-> encryptBlock(given.data, given.key),
                  from |-> given.data]
    /\ UNCHANGED << disk, arc, pc, dest, written, log, before, chain, given, sizing >>

\* decryptBlock(data, key) on the encrypted block
DoDecryptBlock ==
    /\ result.op = "encryptBlock"
    /\ result' = [op |-> "decryptBlock", data |-> decryptBlock(result.data, given.key),
                  from |-> result.data]
    /\ UNCHANGED << disk, arc, pc, dest, written, log, before, chain, given, sizing >>

NextCipher == DoEncryptBlock \/ DoDecryptBlock

SpecCipher == InitCipher /\ [][NextCipher]_vars

\* C25: decrypting an encrypted block of words under the key it was
\* encrypted with gives back the block, for every block and key
C25_CipherRoundTrip ==
    result.op = "decryptBlock" => result.data = given.data

C25_Witness ==
    /\ result.op = "decryptBlock"
    /\ Len(given.data) = MaxWords
    /\ \A i \in 1..MaxWords : result.from[i] # given.data[i]
    /\ result.data = given.data

(***************************************************************************)
(* The key specification: the key of one encrypted block is derived as     *)
(* ExtractFile derives it and as Close derives it in modify mode           *)
(***************************************************************************)
\* a, A, d\b, d\d\b, and a name ending in a separator
KeyPaths == {PathLowerA, PathUpperA, PathBackslash,
             << 100, 92, 100, 92, 98 >>, << 100, 92 >>}

KeyBlocks ==
    {[FilePos |-> pos, CompressedSize |-> size, FileSize |-> size, Flags |-> flags] :
        pos \in {0, 44, 65536}, size \in {4, 12},
        flags \in {Or32(fileExists, fileEncrypted),
                   Or32(Or32(fileExists, fileEncrypted), fileFixKey)}}

NoKey == << -1, -1 >>

InitKey ==
    /\ \E path \in KeyPaths, block \in KeyBlocks,
          separators \in {SeparatorsUnix, SeparatorsWindows} :
          given = [path |-> path, block |-> block, separators |-> separators]
    /\ result = [op |-> "", extract |-> NoKey, modify |-> NoKey]
    /\ disk = [target |-> NoFile, temp |-> NoFile]
    /\ arc = NoHandle
    /\ pc = "idle"
    /\ dest = NoFile
    /\ written = << >>
    /\ log = << >>
    /\ before = NoFile
    /\ chain = NoChain
    /\ sizing = [maxFiles |-> 0, a |-> NoHandle]

\* ExtractFile: getFileKey(mpqPath, blockPos, block.FileSize, block.Flags)
DoGetFileKey ==
    /\ result.extract = NoKey
    /\ result' = [result EXCEPT !.op = "getFileKey",
                     !.extract = getFileKey(given.path, given.block.FilePos,
                                            given.block.FileSize, given.block.Flags)]
    /\ UNCHANGED << disk, arc, pc, dest, written, log, before, chain, given, sizing >>

\* buildModifiedFileList: the key taken from filepath.Base(normalizedPath)
DoExistingFileKey ==
    /\ result.modify = NoKey
    /\ result' = [result EXCEPT !.op = "existingFileKey",
                     !.modify = existingFileKey(given.path, given.block, given.separators)]
    /\ UNCHANGED << disk, arc, pc, dest, written, log, before, chain, given, sizing >>

NextKey == DoGetFileKey \/ DoExistingFileKey

SpecKey == InitKey /\ [][NextKey]_vars

\* the part of path after its last '\' or '/'
AfterLastSlash(path) ==
    LET cuts == {k \in 1..Len(path) : path[k] = 92 \/ path[k] = 47}
    IN IF cuts = {} THEN path
       ELSE Drop(path, CHOOSE k \in cuts : \A other \in cuts : other <= k)

\* the key as described: the FILE_KEY hash of the base name, and with FIX_KEY
\* (base + low32(file_pos)) XOR uncompressed size
DescribedKey(path, block) ==
    LET base == hashString(AfterLastSlash(path), hashTypeFileKey)
    IN IF HasFlag(block.Flags, fileFixKey)
       THEN Xor32(Add32(base, U32(block.FilePos)), U32(block.FileSize))
       ELSE base

\* C26: ExtractFile and the rehydration of modify mode derive the same key
\* for an encrypted file: the FILE_KEY hash of what follows the last '\' or
\* '/' of the path, adjusted by position and size when FIX_KEY is set
C26_OneKeyDerivation ==
    /\ result.extract # NoKey => result.extract = DescribedKey(given.path, given.block)
    /\ result.modify # NoKey => result.modify = DescribedKey(given.path, given.block)

(***************************************************************************)
(* The capacity specification: an archive is created for maxFiles files,   *)
(* at most maxFiles entries are added, and it is written                   *)
(***************************************************************************)
\* Create(path, maxFiles) and CreateV2(path, maxFiles), the maxFiles kept
CreateDeclared ==
    /\ MayConstruct
    /\ \E maxFiles \in 0..MaxDeclared, version \in {FormatV1, FormatV2} :
          /\ arc' = newArchive(maxFiles, version)
          /\ sizing' = [maxFiles |-> maxFiles, a |-> NoHandle]
    /\ disk' = [disk EXCEPT !.temp = Truncated]
    /\ Returns(Result("Create", << >>, ""))
    /\ log' = << >>
    /\ UNCHANGED << pc, written, before, chain, given >>

\* the next entry: a file, a patch file and a delete marker take turns, each
\* under a name of its own
AddDeclared ==
    /\ arc.mode = "w" /\ pc = "idle"
    /\ Len(arc.pendingFiles) < sizing.maxFiles
    /\ LET k == Len(arc.pendingFiles) + 1
           op == IF k % 3 = 1 THEN "AddFile"
                 ELSE IF k % 3 = 2 THEN "AddPatchFile" ELSE "AddDeleteMarker"
           pf == PendingFile(TableNames[k], IF k % 3 = 0 THEN << >> ELSE << k >>,
                             FALSE, k % 3 = 2, k % 3 = 0)
       IN /\ arc' = [arc EXCEPT !.pendingFiles = Append(@, pf)]
          /\ log' = Append(log, [op |-> op, mpqPath |-> TableNames[k], pf |-> pf])
          /\ Returns(Result(op, TableNames[k], ""))
    /\ UNCHANGED << disk, pc, written, before, chain, given, sizing >>

NextCapacity ==
    \/ CreateDeclared
    \/ AddDeclared
    \/ CloseBegin
    \/ CloseSerialize

SpecCapacity == Init /\ [][NextCapacity]_vars

HashTableFull ==
    {"hash table full", "add to hash table: hash table full",
     "add listfile to hash table: hash table full",
     "add attributes to hash table: hash table full"}

RepeatPayloads == {<< 1 >>, << 2 >>, Sectored}

\* AddFile(PathLowerA, data)
AddAgain ==
    /\ MayCall /\ arc.mode \in {"w", "m"}
    /\ Len(log) < MaxRepeat
    /\ \E data \in RepeatPayloads :
          LET pf == PendingFile(PathLowerA, data, FALSE, FALSE, FALSE)
          IN /\ arc' = [arc EXCEPT !.pendingFiles = Append(@, pf)]
             /\ log' = Append(log, [op |-> "AddFile", mpqPath |-> PathLowerA, pf |-> pf])
             /\ Returns(Result("AddFile", PathLowerA, ""))
    /\ UNCHANGED << disk, pc, written, before, chain, given, sizing >>

NextRepeat ==
    \/ Create
    \/ OpenForModify
    \/ AddAgain
    \/ CloseBegin
    \/ CloseSerialize
    \/ CloseRemoveTarget
    \/ CloseRename
    \/ Open
    \/ DoExtractFile
    \/ CloseRead

SpecRepeat == Init /\ [][NextRepeat]_vars

\* the handle in use comes from Open on an archive whose last writer, from
\* Create (mode "w") or OpenForModify (mode "m"), added twice under one path
AddedTwice(mode) ==
    /\ arc.mode = "r" /\ pc = "idle"
    /\ Len(written) >= 1
    /\ \A k \in 1..Len(written) : written[k].saved
    /\ written[Len(written)].mode = mode
    /\ Len(written[Len(written)].calls) = 2
    /\ written[Len(written)].calls[1].pf.data # written[Len(written)].calls[2].pf.data

\* C28: when a path was added more than once on a handle before Close, the
\* content added last is what the path extracts to after reopening, on a
\* handle from Create and on a handle from OpenForModify
C28_LastAddWins ==
    \A mode \in {"w", "m"} :
        (/\ AddedTwice(mode)
         /\ result.op = "ExtractFile"
         /\ result.path = PathLowerA) =>
            /\ result.err = ""
            /\ dest = FileOf(written[Len(written)].calls[2].pf.data)

\* C28 on a handle from OpenForModify alone
C28_LastAddWinsModify ==
    (/\ AddedTwice("m")
     /\ result.op = "ExtractFile"
     /\ result.path = PathLowerA) =>
        /\ result.err = ""
        /\ dest = FileOf(written[Len(written)].calls[2].pf.data)

(***************************************************************************)
(* patch_chain.go : PatchChain                                             *)
(***************************************************************************)
\* one pass of strings.ReplaceAll(normalized, "\\\\", "\\")
RECURSIVE replaceDouble(_, _)
replaceDouble(s, i) ==
    IF i > Len(s) THEN << >>
    ELSE IF s[i] = 92 /\ i < Len(s) /\ s[i + 1] = 92
    THEN << 92 >> \o replaceDouble(s, i + 2)
    ELSE << s[i] >> \o replaceDouble(s, i + 1)

\* strings.Contains(normalized, "\\\\")
containsDouble(s) == \E i \in 1..(Len(s) - 1) : s[i] = 92 /\ s[i + 1] = 92

RECURSIVE cleanDoubles(_)
cleanDoubles(s) == IF containsDouble(s) THEN cleanDoubles(replaceDouble(s, 1)) ELSE s

\* patch_chain.go:15-25
normalizeMpqPath(path) == cleanDoubles(ToUpper(SlashToBackslash(path)))

\* make(map[string]int)
EmptyMap == [key \in {} |-> 0]

\* patch_chain.go:275-281 : the files of archive i enter the map
mapFile(fileMap, key, i) ==
    IF key \in DOMAIN fileMap THEN fileMap ELSE fileMap @@ (key :> i)

RECURSIVE mapFiles(_, _, _, _)
mapFiles(fileMap, files, i, k) ==
    IF k > Len(files) THEN fileMap
    ELSE mapFiles(mapFile(fileMap, normalizeMpqPath(files[k]), i), files, i, k + 1)

\* patch_chain.go:267-272 : an archive whose ListFiles fails is passed over
mapListed(fileMap, listed, i) ==
    IF listed.err # "" THEN fileMap ELSE mapFiles(fileMap, listed.val, i, 1)

\* patch_chain.go:263-282 : from the highest index down to 0
RECURSIVE mapArchives(_, _, _)
mapArchives(archives, fileMap, i) ==
    IF i < 0 THEN fileMap
    ELSE mapArchives(archives, mapListed(fileMap, ListFiles(archives[i + 1]), i), i - 1)

\* patch_chain.go:258-286 ; the error returned is always nil
rebuildFileMap(p) ==
    Ok([p EXCEPT !.fileMap = mapArchives(p.archives, EmptyMap, Len(p.archives) - 1),
                 !.cacheBuilt = TRUE])

\* patch_chain.go:122-136 ; i counts down from the highest index
RECURSIVE hasFileLinear(_, _, _)
hasFileLinear(p, mpqPath, i) ==
    IF i < 0 THEN FALSE
    ELSE IF findFile(p.archives[i + 1], mpqPath) >= 0
    THEN flagAt(p.archives[i + 1], findFile(p.archives[i + 1], mpqPath),
                fileDeleteMarker, FALSE)
    ELSE hasFileLinear(p, mpqPath, i - 1)

\* patch_chain.go:104-118 : the chosen archive is asked for its block
hasFileIn(p, archive, idx) ==
    IF idx < 0 THEN [has |-> FALSE, p |-> rebuildFileMap(p).val]
    ELSE [has |-> flagAt(archive, idx, fileDeleteMarker, FALSE), p |-> p]

\* patch_chain.go:95-118
hasFileCached(p, mpqPath, normalizedPath) ==
    IF normalizedPath \notin DOMAIN p.fileMap THEN [has |-> FALSE, p |-> p]
    ELSE hasFileIn(p, p.archives[p.fileMap[normalizedPath] + 1],
                   findFile(p.archives[p.fileMap[normalizedPath] + 1], mpqPath))

\* patch_chain.go:86-119 ; built is what rebuildFileMap gave where it ran
hasFileBuilt(p, mpqPath, built) ==
    IF built.err # ""
    THEN [has |-> hasFileLinear(p, mpqPath, Len(p.archives) - 1), p |-> p]
    ELSE hasFileCached(built.val, mpqPath, normalizeMpqPath(mpqPath))

PatchChainHasFile(p, mpqPath) ==
    hasFileBuilt(p, mpqPath, IF ~p.cacheBuilt THEN rebuildFileMap(p) ELSE Ok(p))

\* patch_chain.go:176-190
RECURSIVE extractFileLinear(_, _, _)
extractFileLinear(p, mpqPath, i) ==
    IF i < 0 THEN Fail("file not found in patch chain")
    ELSE IF findFile(p.archives[i + 1], mpqPath) >= 0
    THEN IF flagAt(p.archives[i + 1], findFile(p.archives[i + 1], mpqPath),
                   fileDeleteMarker, TRUE)
         THEN Fail("file marked for deletion in patch")
         ELSE ExtractFile(p.archives[i + 1], mpqPath)
    ELSE extractFileLinear(p, mpqPath, i - 1)

\* patch_chain.go:158-172 : the chosen archive is asked for its block
extractFileIn(p, archive, mpqPath, idx) ==
    IF idx < 0
    THEN [r |-> Fail("file not found in patch chain"), p |-> rebuildFileMap(p).val]
    ELSE IF flagAt(archive, idx, fileDeleteMarker, TRUE)
    THEN [r |-> Fail("file marked for deletion in patch"), p |-> p]
    ELSE [r |-> ExtractFile(archive, mpqPath), p |-> p]

\* patch_chain.go:149-172
extractFileCached(p, mpqPath, normalizedPath) ==
    IF normalizedPath \notin DOMAIN p.fileMap
    THEN [r |-> Fail("file not found in patch chain"), p |-> p]
    ELSE extractFileIn(p, p.archives[p.fileMap[normalizedPath] + 1], mpqPath,
                       findFile(p.archives[p.fileMap[normalizedPath] + 1], mpqPath))

\* patch_chain.go:140-173 ; built is what rebuildFileMap gave where it ran
extractFileBuilt(p, mpqPath, built) ==
    IF built.err # ""
    THEN [r |-> extractFileLinear(p, mpqPath, Len(p.archives) - 1), p |-> p]
    ELSE extractFileCached(built.val, mpqPath, normalizeMpqPath(mpqPath))

PatchChainExtractFile(p, mpqPath) ==
    extractFileBuilt(p, mpqPath, IF ~p.cacheBuilt THEN rebuildFileMap(p) ELSE Ok(p))

\* filepath.Clean, on a name that holds no '/': a name is one element, which
\* Clean returns as it is unless it is empty or "."
filepathClean(path) == IF path = << >> \/ path = << 46 >> THEN << 46 >> ELSE path

\* patch_chain.go:203 : the key a listed name is remembered by
listKey(file) == ToLower(filepathClean(SlashToBackslash(file)))

\* patch_chain.go:202-208 : one listed name; st is [seen, result]
listFile(st, file) ==
    IF listKey(file) \in st.seen THEN st
    ELSE [seen |-> st.seen \cup {listKey(file)}, result |-> Append(st.result, file)]

RECURSIVE listFiles(_, _, _)
listFiles(st, files, k) ==
    IF k > Len(files) THEN st ELSE listFiles(listFile(st, files[k]), files, k + 1)

\* patch_chain.go:196-209 : the archives in chain order; the first whose
\* ListFiles fails ends the call with that error
RECURSIVE listArchives(_, _, _)
listArchive(p, i, st, files) ==
    IF files.err # "" THEN Fail(files.err)
    ELSE listArchives(p, i + 1, listFiles(st, files.val, 1))

listArchives(p, i, st) ==
    IF i > Len(p.archives) THEN Ok(st.result)
    ELSE listArchive(p, i, st, ListFiles(p.archives[i]))

\* patch_chain.go:193-211
PatchChainListFiles(p) == listArchives(p, 1, [seen |-> {}, result |-> << >>])

\* patch_chain.go:41-55 : the archives are opened in order; the first that
\* fails to open ends the call
RECURSIVE openArchives(_, _, _)
openNext(files, i, archives, opened) ==
    IF opened.err # "" THEN Fail("open archive")
    ELSE openArchives(files, i + 1, Append(archives, opened.val))

openArchives(files, i, archives) ==
    IF i > Len(files) THEN Ok(archives)
    ELSE openNext(files, i, archives, loadArchive(files[i], "r"))

\* patch_chain.go:57-70 ; no archive of this specification stores a
\* (patch_metadata) file, so metadata stays empty (mpq.go:1128-1131)
newPatchChain(opened) ==
    IF opened.err # "" THEN opened
    ELSE rebuildFileMap([open |-> TRUE, archives |-> opened.val, metadata |-> EmptyMap,
                         fileMap |-> EmptyMap, cacheBuilt |-> FALSE])

\* patch_chain.go:37-71
OpenPatchChainOf(files) == newPatchChain(openArchives(files, 1, << >>))

(***************************************************************************)
(* The patch chain specification: one chain over archives found on disk    *)
(***************************************************************************)
\* the contents of the files in the chain's archives
Base == << 66 >>
Patched == << 80 >>

\* what an archive given to OpenPatchChain is made of: its one entry, and
\* whether it has a (listfile); a missing file has no entry
MadeOf(pf, listed) == [exists |-> TRUE, pending |-> << pf >>, listed |-> listed]
Missing == [exists |-> FALSE, pending |-> << >>, listed |-> FALSE]

ChainInputs ==
    {MadeOf(PendingFile(PathUpperA, Base, FALSE, FALSE, FALSE), TRUE),
     MadeOf(PendingFile(PathLowerA, Patched, FALSE, FALSE, FALSE), TRUE),
     MadeOf(PendingFile(PathLowerA, << >>, FALSE, FALSE, TRUE), TRUE),
     MadeOf(PendingFile(PathBackslash, Patched, FALSE, TRUE, FALSE), TRUE),
     MadeOf(PendingFile(PathLowerA, Patched, FALSE, FALSE, FALSE), FALSE),
     MadeOf(PendingFile(PathUpperA, << >>, FALSE, FALSE, TRUE), FALSE),
     Missing}

\* the handle whose Close writes the archive
madeBy(d) ==
    [newArchive(CHOOSE maxFiles \in CreateMaxFiles : TRUE, FormatV1)
        EXCEPT !.pendingFiles = d.pending]

\* the file of an archive: as Create, one add and Close of this library leave
\* it or, without (listfile) and (attributes), as another writer leaves it
fileMadeOf(d) ==
    IF ~d.exists THEN NoFile
    ELSE IF d.listed THEN writeArchive(madeBy(d)).file
    ELSE writeTables(madeBy(d), writeFiles(madeBy(d), newWriteState(madeBy(d)), 1)).file

ChainFiles == [d \in ChainInputs |-> fileMadeOf(d)]

\* the names the chain is asked for: the paths, and the two special files
ChainLookups == Paths \cup {LISTFILE, ATTRIBUTES}

\* the lists of archives OpenPatchChain is called with
ChainPaths == UNION {[1..n -> ChainInputs] : n \in 1..MaxChain}

\* patch_chain.go:37-71
OpenPatchChain ==
    /\ ~chain.open
    /\ \E paths \in ChainPaths :
          \E r \in {OpenPatchChainOf([i \in 1..Len(paths) |-> ChainFiles[paths[i]]])} :
             /\ chain' = IF r.err = "" THEN r.val ELSE chain
             /\ given' = IF r.err = "" THEN paths ELSE given
             /\ Returns(Result("OpenPatchChain", << >>, r.err))
    /\ UNCHANGED << disk, arc, pc, written, log, before, sizing >>

\* patch_chain.go:86-119
DoChainHasFile ==
    /\ chain.open
    /\ \E mpqPath \in ChainLookups :
          \E r \in {PatchChainHasFile(chain, mpqPath)} :
             /\ chain' = r.p
             /\ Returns([Result("PatchChain.HasFile", mpqPath, "") EXCEPT !.has = r.has])
    /\ UNCHANGED << disk, arc, pc, written, log, before, given, sizing >>

\* patch_chain.go:140-173 ; every call names a fresh destination
DoChainExtractFile ==
    /\ chain.open
    /\ \E mpqPath \in ChainLookups :
          \E e \in {PatchChainExtractFile(chain, mpqPath)} :
             /\ chain' = e.p
             /\ result' = Result("PatchChain.ExtractFile", mpqPath, e.r.err)
             /\ dest' = IF e.r.err = "" THEN FileOf(e.r.val) ELSE NoFile
    /\ UNCHANGED << disk, arc, pc, written, log, before, given, sizing >>

\* patch_chain.go:193-211
DoChainListFiles ==
    /\ chain.open
    /\ \E r \in {PatchChainListFiles(chain)} :
          Returns([Result("PatchChain.ListFiles", << >>, r.err) EXCEPT !.files = r.val])
    /\ UNCHANGED << disk, arc, pc, written, log, before, chain, given, sizing >>

\* patch_chain.go:219-221
GetArchiveCount ==
    /\ chain.open
    /\ Returns([Result("GetArchiveCount", << >>, "") EXCEPT !.count = Len(chain.archives)])
    /\ UNCHANGED << disk, arc, pc, written, log, before, chain, given, sizing >>

\* patch_chain.go:74-82 ; Close of a handle from Open returns nil
PatchChainClose ==
    /\ chain.open
    /\ chain' = NoChain
    /\ given' = << >>
    /\ Returns(Result("PatchChain.Close", << >>, ""))
    /\ UNCHANGED << disk, arc, pc, written, log, before, sizing >>

NextChain ==
    \/ OpenPatchChain
    \/ DoChainHasFile
    \/ DoChainExtractFile
    \/ DoChainListFiles
    \/ GetArchiveCount
    \/ PatchChainClose

SpecChain == Init /\ [][NextChain]_vars

\* the archives of the chain in use, by index from 1, with an entry under the
\* name of path
Holders(path) ==
    {i \in 1..Len(given) :
        \E k \in 1..Len(given[i].pending) :
            Normalized(given[i].pending[k].mpqPath) = Normalized(path)}

\* the entry under the name of path in the highest of them
TopEntry(path) ==
    LET top == CHOOSE i \in Holders(path) : \A j \in Holders(path) : j <= i
    IN given[top].pending[CHOOSE k \in 1..Len(given[top].pending) :
           Normalized(given[top].pending[k].mpqPath) = Normalized(path)]

\* C2: PatchChain.ExtractFile yields the content of the entry that the
\* highest archive with an entry under the name holds, when that entry is not
\* a delete marker, and GetArchiveCount is the number of archives given
C2_ChainPriority ==
    chain.open =>
        /\ result.op = "GetArchiveCount" => result.count = Len(given)
        /\ (/\ result.op = "PatchChain.ExtractFile"
            /\ Holders(result.path) # {}
            /\ ~TopEntry(result.path).isDeleteMarker)
              => (result.err = "" /\ dest = FileOf(TopEntry(result.path).data))

\* C3: when the highest archive with an entry under a name holds a delete
\* marker, PatchChain.HasFile is false and PatchChain.ExtractFile fails with
\* "file marked for deletion in patch" and writes no destination
C3_ChainDeletion ==
    (chain.open /\ Holders(result.path) # {} /\ TopEntry(result.path).isDeleteMarker) =>
        /\ result.op = "PatchChain.HasFile" => ~result.has
        /\ result.op = "PatchChain.ExtractFile"
              => (result.err = "file marked for deletion in patch" /\ dest = NoFile)

\* the highest archive of the chain with an entry under the name of path
TopHolder(path) == CHOOSE i \in Holders(path) : \A j \in Holders(path) : j <= i

\* C14: a live file stored in an archive on which ListFiles fails, and not
\* shadowed by a higher archive, is found by PatchChain.HasFile and extracted
\* by PatchChain.ExtractFile
C14_GracefulDegradation ==
    (/\ chain.open
     /\ Holders(result.path) # {}
     /\ ListFiles(chain.archives[TopHolder(result.path)]).err # ""
     /\ ~TopEntry(result.path).isDeleteMarker) =>
        /\ result.op = "PatchChain.HasFile" => result.has
        /\ result.op = "PatchChain.ExtractFile" =>
              (result.err = "" /\ dest = FileOf(TopEntry(result.path).data))

\* C15: PatchChain.HasFile and PatchChain.ExtractFile answer every name,
\* (listfile) and (attributes) included, as the search of the archives from
\* the highest down answers it (hasFileLinear, extractFileLinear)
C15_CacheIsOptimization ==
    chain.open =>
        /\ result.op = "PatchChain.HasFile" =>
              result.has = hasFileLinear(chain, result.path, Len(chain.archives) - 1)
        /\ result.op = "PatchChain.ExtractFile" =>
              /\ result.err =
                    extractFileLinear(chain, result.path, Len(chain.archives) - 1).err
              /\ result.err = "" =>
                    dest = FileOf(extractFileLinear(chain, result.path,
                                                    Len(chain.archives) - 1).val)

\* the name a listed name counts as: '/' as '\', lower-cased
ListedAs(name) == ToLower(SlashToBackslash(name))

\* C16: every name listed by an archive of the chain appears exactly once in
\* what PatchChain.ListFiles returns, names counting as the same when equal
\* after slash normalization and lower-casing, and nothing else appears
C16_ChainListing ==
    (chain.open /\ result.op = "PatchChain.ListFiles") =>
        /\ \A i \in 1..Len(chain.archives) :
              LET listed == ListFiles(chain.archives[i])
              IN listed.err = "" =>
                    \A k \in 1..Len(listed.val) :
                        Cardinality({j \in 1..Len(result.files) :
                            ListedAs(result.files[j]) = ListedAs(listed.val[k])}) = 1
        /\ \A j \in 1..Len(result.files) :
              \E i \in 1..Len(chain.archives) :
                  LET listed == ListFiles(chain.archives[i])
                  IN listed.err = "" /\ \E k \in 1..Len(listed.val) :
                                            listed.val[k] = result.files[j]

\* C30: every name that ListFiles returns, on an archive and on a patch
\* chain, is reported present by HasFile on the same archive or chain
C30_ListedArePresent ==
    /\ (arc.mode \in {"r", "m"} /\ result.op = "ListFiles" /\ result.err = "") =>
          \A k \in 1..Len(result.files) : HasFile(arc, result.files[k])
    /\ (chain.open /\ result.op = "PatchChain.ListFiles" /\ result.err = "") =>
          \A k \in 1..Len(result.files) : PatchChainHasFile(chain, result.files[k]).has

(***************************************************************************)
(* The sizing specification: Create with every maxFiles up to the bound    *)
(***************************************************************************)
InitSizing ==
    /\ sizing = [maxFiles |-> 0, a |-> NoHandle]
    /\ disk = [target |-> NoFile, temp |-> NoFile]
    /\ arc = NoHandle
    /\ pc = "idle"
    /\ result = [op |-> "", err |-> ""]
    /\ dest = NoFile
    /\ written = << >>
    /\ log = << >>
    /\ before = NoFile
    /\ chain = NoChain
    /\ given = << >>

\* Create(path, maxFiles)
CreateV1Sized ==
    /\ \E maxFiles \in 0..MaxMaxFiles :
          sizing' = [maxFiles |-> maxFiles, a |-> newArchive(maxFiles, FormatV1)]
    /\ UNCHANGED << disk, arc, pc, result, dest, written, log, before, chain, given >>

\* CreateV2(path, maxFiles)
CreateV2Sized ==
    /\ \E maxFiles \in 0..MaxMaxFiles :
          sizing' = [maxFiles |-> maxFiles, a |-> newArchive(maxFiles, FormatV2)]
    /\ UNCHANGED << disk, arc, pc, result, dest, written, log, before, chain, given >>

NextSizing == CreateV1Sized \/ CreateV2Sized

SpecSizing == InitSizing /\ [][NextSizing]_vars

PowersOfTwo == {2 ^ k : k \in 0..30}

\* C10: for every maxFiles >= 0 the created archive's hash table has as many
\* entries as the smallest power of two that is >= ceil(maxFiles * 1.5) and
\* >= 16
C10_HashTableSizing ==
    sizing.a.mode = "w" =>
        LET n == sizing.a.header.HashTableSize
            need == (3 * sizing.maxFiles + 1) \div 2
        IN /\ n = Len(sizing.a.hashTable)
           /\ n \in PowersOfTwo
           /\ n >= need
           /\ n >= 16
           /\ \A p \in PowersOfTwo : (p >= need /\ p >= 16) => n <= p

====
